---- MODULE Spec2Model ----
(***************************************************************************)
(* Universal FlRig Bridge (flrig-bridge/flrig-gqrx-universal-bridge.py).   *)
(*                                                                         *)
(* Threads: one handler per accepted rigctld connection                    *)
(* (handle_rigctld_client), the GQRX reconciler (gqrx_sync_loop), and the  *)
(* environment: the rig behind FlRig's XML-RPC endpoint, the GQRX          *)
(* receiver, the rigctld clients and the network between them.             *)
(*                                                                         *)
(* Byte strings are sequences of one-character strings, so that recv(),    *)
(* strip(), split(), int() and f"{freq}" are computed as Python computes   *)
(* them.                                                                   *)
(***************************************************************************)
EXTENDS Integers, Sequences, FiniteSets, TLC

\* ------------------------------------------------------------------ bounds
\* Connection slots, and how many clients connect in the general run.
NConn == 2

MaxClients == 1

\* Environment events (dial turns, outages) in one run.
MaxEnv == 2

\* The reconciler's tick counter stops counting here.
MaxTicks == 3

\* How many times FrequencySync.start() may create a loop thread.
MaxStarts == 2

\* An optional value (Python's None or a value) is <<>> or <<v>>.
None == <<>>

Some(v) == <<v>>

\* Python truthiness of an optional integer: None and 0 are falsy.
Truthy(o) == o # None /\ o[1] # 0

Abs(n) == IF n < 0 THEN 0 - n ELSE n

\* ------------------------------------------------------- Python str helpers
WS == {" ", "\n"}

Digits == <<"0", "1", "2", "3", "4", "5", "6", "7", "8", "9">>

IsDigit(ch) == \E i \in 1..10 : Digits[i] = ch

DigitVal(ch) == (CHOOSE i \in 1..10 : Digits[i] = ch) - 1

\* str.split(): the maximal runs of non-whitespace characters, in order.
\* (data.decode().strip().split() equals data.decode().split().)
RECURSIVE SplitFrom(_, _, _)
SplitFrom(s, i, cur) ==
    IF i > Len(s)
    THEN IF cur = <<>> THEN <<>> ELSE <<cur>>
    ELSE IF s[i] \in WS
         THEN IF cur = <<>>
              THEN SplitFrom(s, i + 1, <<>>)
              ELSE <<cur>> \o SplitFrom(s, i + 1, <<>>)
         ELSE SplitFrom(s, i + 1, Append(cur, s[i]))

\* str.strip(): leading and trailing whitespace removed.
RECURSIVE LStrip(_)
LStrip(s) ==
    IF s # <<>> /\ Head(s) \in WS THEN LStrip(Tail(s)) ELSE s

RECURSIVE RStrip(_)
RStrip(s) ==
    IF s # <<>> /\ s[Len(s)] \in WS THEN RStrip(SubSeq(s, 1, Len(s) - 1)) ELSE s

Strip(s) == RStrip(LStrip(s))

Split(s) == SplitFrom(s, 1, <<>>)

\* int(tok) for a whitespace-free token: an optional sign and one or more
\* decimal digits; anything else raises ValueError.
AllDigits(t) == t # <<>> /\ \A i \in 1..Len(t) : IsDigit(t[i])

Unsigned(t) == IF t # <<>> /\ Head(t) \in {"+", "-"} THEN Tail(t) ELSE t

IsInt(tok) == AllDigits(Unsigned(tok))

RECURSIVE DigitsVal(_)
DigitsVal(t) ==
    IF t = <<>> THEN 0
    ELSE 10 * DigitsVal(SubSeq(t, 1, Len(t) - 1)) + DigitVal(t[Len(t)])

PyInt(tok) ==
    IF Head(tok) = "-" THEN 0 - DigitsVal(Unsigned(tok)) ELSE DigitsVal(Unsigned(tok))

\* f"{n}": the decimal digits of n, without leading zeros, "-" first if n < 0.
RECURSIVE NatToStr(_)
NatToStr(n) ==
    IF n < 10 THEN <<Digits[n + 1]>>
    ELSE Append(NatToStr(n \div 10), Digits[(n % 10) + 1])

IntToStr(n) == IF n < 0 THEN <<"-">> \o NatToStr(0 - n) ELSE NatToStr(n)

\* ------------------------------------------------------ protocol literals
RPRT_OK == <<"R", "P", "R", "T", " ", "0", "\n">>

RPRT_ERR == <<"R", "P", "R", "T", " ", "-", "1", "\n">>

PTT_TX == <<"1", "\n">>

\* Line 220: "0\n", always RX.
PTT_RX == <<"0", "\n">>

DUMP_STATE ==
    <<"0", "\n", "2", "\n", "2", "\n", "1", "5", "0", "0", "0", "0", ".", "0", "0", "0", "0", "0", "0", " ", "3", "0", "0", "0", "0", "0", "0", "0", ".", "0", "0", "0", "0", "0", "0", " ", "0", "x", "9", "0", "0", " ", "-", "1", " ", "-", "1", " ", "0", "x", "1", "0", "0", "0", "0", "0", "0", "3", " ", "0", "x", "3", "\n">>
    \o <<"0", " ", "0", " ", "0", " ", "0", " ", "0", " ", "0", " ", "0", "\n">>

CmdDumpState == <<"\\", "d", "u", "m", "p", "_", "s", "t", "a", "t", "e">>

PASSBAND == <<"\n", "0", "\n">>

USB == <<"U", "S", "B">>

LSB == <<"L", "S", "B">>

CW == <<"C", "W">>

CWR == <<"C", "W", "R">>

AM == <<"A", "M">>

FM == <<"F", "M">>

RTTY == <<"R", "T", "T", "Y">>

RTTYR == <<"R", "T", "T", "Y", "R">>

\* A mode FlRig reports that mode_map does not list.
PKTUSB == <<"P", "K", "T", "-", "U">>

KnownModes == {USB, LSB, CW, CWR, AM, FM, RTTY, RTTYR}

ModeMap_Raw(mode) == mode

\* mode_map.get(mode, 'USB')
ModeMap(mode) == IF mode \in KnownModes THEN mode ELSE USB

\* ------------------------------------------------- what the clients send
\* A script is the sequence of TCP segments a client's bytes travel in; one
\* recv() returns one or more whole segments.
SegF1400 == <<"F", " ", "1", "4", "0", "0">>

Seg0000 == <<"0", "0", "0", "0", "\n">>

SegGetF == <<"f", "\n">>

SegGetM == <<"m", "\n">>

SegBogus == <<"b", "o", "g", "u", "s", "\n">>

SegFabc == <<"F", " ", "a", "b", "c", "\n">>


SegF7000000 == <<"F", " ", "7", "0", "0", "0", "0", "0", "0", "\n">>

SegF14000000 == <<"F", " ", "1", "4", "0", "0", "0", "0", "0", "0", "\n">>

SegF1000000 == <<"F", " ", "1", "0", "0", "0", "0", "0", "0", "\n">>

SegF30000000 == <<"F", " ", "3", "0", "0", "0", "0", "0", "0", "0", "\n">>

SegSetPKT == <<"M", " ", "P", "K", "T", "-", "U", "\n">>

SegGetT == <<"t", "\n">>

SegSetT0 == <<"T", " ", "0", "\n">>

SegSetT1 == <<"T", " ", "1", "\n">>

SegDump == CmdDumpState \o <<"\n">>

SegQuit == <<"q", "\n">>

SegQuitUpper == <<"Q", "\n">>

ScriptSplit == <<SegF1400, Seg0000>>

ScriptTwo == <<SegGetF, SegGetM>>

ScriptBogus == <<SegBogus, SegGetF>>

ScriptFabc == <<SegFabc, SegGetF>>

ScriptRoundLo == <<SegF1000000, SegGetF>>

ScriptRoundHi == <<SegF30000000, SegGetF>>

ScriptMode == <<SegSetPKT, SegGetM>>

Scripts ==
    {ScriptSplit, ScriptTwo, ScriptBogus, ScriptFabc, ScriptRoundLo,
     ScriptRoundHi, ScriptMode}

ScriptPtt == <<SegGetT, SegSetT1>>

ScriptPttOff == <<SegSetT0, SegGetT>>

ScriptDump == <<SegDump, SegGetF, SegDump>>

ScriptQuit == <<SegQuit, SegGetF>>

ScriptQuitUpper == <<SegGetF, SegQuitUpper>>

ScriptBystander == <<SegDump, SegGetF>>

\* The scripts of the commands that are answered without the rig's help.
LocalScripts ==
    {ScriptPtt, ScriptPttOff, ScriptDump, ScriptQuit, ScriptQuitUpper}

RECURSIVE Concat(_)
Concat(segs) == IF segs = <<>> THEN <<>> ELSE Head(segs) \o Concat(Tail(segs))

\* ------------------------------------------------------------ the threads
Conns == 1..NConn

\* The reconciler thread (gqrx_sync_loop).
Recon == 0

InitFreqs == {0, 7000000}

TuneFreqs == {0, 7000000, 7010000}

VARIABLES
    rigFreq,    \* the rig's VFO, as FlRig holds it
    rigMode,    \* the rig's mode, as FlRig reports it
    rigUp,      \* FlRig's XML-RPC endpoint answers
    gqrxFreq,   \* GQRX's frequency
    gqrxUp,     \* GQRX's remote control answers
    gqrx_sock,  \* self.gqrx_sock: None, or <<"open">>, or <<"broken">> (the
                \* peer is gone), or <<"faulted">> (a call on it has raised)
    gqrx_rx,    \* the bytes GQRX has sent on the socket that no recv() has
                \* returned yet
    last_freq,  \* self.last_freq
    freq_lock,  \* the holder of self.freq_lock, or None
    running,    \* self.running
    main,       \* run(): "start", "aborted", "serving" or "stopped"
    server,     \* rigctld_server_loop: "off", "listening", "dead" or "exit"
    sync,       \* the reconciler: pc and the locals gqrx_freq, flrig_freq
    hpc,        \* per connection: the handler's position
    script,     \* per connection: the segments its client sends
    nread,      \* per connection: how many of them recv() has returned
    call,       \* per connection: the XML-RPC call in flight
    sent,       \* per connection: the replies passed to sendall(), in order
    raced,      \* the threads whose call in flight overlapped another call
    rt,         \* per connection: the frequency its last successful F set,
                \* None once anything else has written the rig
    env,        \* the number of environment events so far
    ticks,      \* the number of reconciler ticks completed (capped)
    fsync,      \* the FrequencySync object: running, thread (the number of the
                \* latest loop thread, 0 for None), last_frequency, last_mode,
                \* its GQRXControl's _connected, whether stop() is in join(),
                \* and what the latest start() returned
    loops,      \* per loop thread of FrequencySync: its position in sync_loop
    gqrx_cmds   \* the commands the latest sync_once() sent to GQRX, each with
                \* the response read and what the setter returned

vars ==
    <<rigFreq, rigMode, rigUp, gqrxFreq, gqrxUp, gqrx_sock, gqrx_rx, last_freq,
      freq_lock, running, main, server, sync, hpc, script, nread, call, sent, raced, rt,
      env, ticks, fsync, loops, gqrx_cmds>>

rigVars == <<rigFreq, rigMode, rigUp>>

gqrxVars == <<gqrxFreq, gqrxUp>>

connVars == <<hpc, script, nread, call, sent>>

NoCall == [op |-> "none", arg |-> None]

Init ==
    /\ rigFreq \in InitFreqs
    /\ rigMode = LSB
    /\ rigUp = TRUE
    /\ gqrxFreq \in InitFreqs
    /\ gqrxUp \in BOOLEAN
    /\ gqrx_sock = None
    /\ gqrx_rx = <<>>
    /\ fsync = [running |-> FALSE, thread |-> 0, last_frequency |-> 0, last_mode |-> <<>>,
                connected |-> FALSE, joining |-> FALSE, started |-> None]
    /\ loops = [t \in 1..MaxStarts |-> "none"]
    /\ gqrx_cmds = <<>>
    /\ last_freq = None
    /\ freq_lock = None
    /\ running = TRUE
    /\ main = "start"
    /\ server = "off"
    /\ sync = [pc |-> "off", gqrx_freq |-> None, flrig_freq |-> None]
    /\ hpc = [c \in Conns |-> "idle"]
    /\ script = [c \in Conns |-> <<>>]
    /\ nread = [c \in Conns |-> 0]
    /\ call = [c \in Conns |-> NoCall]
    /\ sent = [c \in Conns |-> <<>>]
    /\ raced = {}
    /\ rt = [c \in Conns |-> None]
    /\ env = 0
    /\ ticks = MaxTicks

\* --------------------------------------------------- the XML-RPC endpoint
\* The calls in flight on the one shared ServerProxy (self.flrig).
InFlight ==
    {c \in Conns : hpc[c] = "rpc"}
        \cup (IF sync.pc \in {"rigread", "rigwrite"} THEN {Recon} ELSE {})

\* A call begun by thread t: it and every call already in flight have now
\* overlapped.  No lock guards self.flrig.
RacedAtBegin(t) == IF InFlight = {} THEN raced ELSE raced \cup InFlight \cup {t}

\* How a call of thread t can end.  ok: it returned without raising;
\* applied: the request reached FlRig and took effect.  A call on an
\* endpoint that is down raises; a call that shared the ServerProxy's one
\* HTTP connection with another thread's call can raise as well
\* (http.client's CannotSendRequest / ResponseNotReady), before or after
\* its request was sent.
RpcOutcomes(t) ==
    IF ~rigUp THEN {[ok |-> FALSE, applied |-> FALSE]}
    ELSE IF t \in raced
         THEN {[ok |-> TRUE, applied |-> TRUE],
               [ok |-> FALSE, applied |-> TRUE],
               [ok |-> FALSE, applied |-> FALSE]}
         ELSE {[ok |-> TRUE, applied |-> TRUE]}

\* float(freq) on the way to FlRig and int(freq) on the way back: exact for
\* every integer below 2^53.
PyFloat(n) == n

\* ------------------------------------------------ handle_rigctld_client
\* What one pass of the loop body does with the bytes of one recv().
\*   continue: no command words;  reply: answered locally;
\*   quit: answered, then break;  rpc: a call to FlRig decides the answer.
Act(kind, op, arg, reply) == [kind |-> kind, op |-> op, arg |-> arg, reply |-> reply]

\* Line 196-197: int(parts[1]) raised ValueError.
BadFreqReply == RPRT_ERR

UnknownReply_Ok == RPRT_OK

\* Line 228-229: no branch took the command.
UnknownReply == RPRT_ERR

DumpStateReply_Live ==
    <<"0", "\n", "2", "\n", "2", "\n">> \o IntToStr(rigFreq) \o <<"\n">>

\* Lines 225-226: the reply to \dump_state.
DumpStateReply == DUMP_STATE

Dispatch(data) ==
    LET parts == Split(Strip(data))
    IN  IF parts = <<>> THEN Act("continue", "none", None, <<>>)
        ELSE LET command == parts[1]
             IN  IF command \in {<<"f">>, <<"F">>}
                 THEN IF Len(parts) = 1
                      THEN Act("rpc", "get_vfo", None, <<>>)
                      ELSE IF IsInt(parts[2])
                           THEN Act("rpc", "set_frequency", Some(PyInt(parts[2])), <<>>)
                           ELSE Act("reply", "none", None, BadFreqReply)
                 ELSE IF command \in {<<"m">>, <<"M">>}
                 THEN IF Len(parts) = 1
                      THEN Act("rpc", "get_mode", None, <<>>)
                      ELSE Act("rpc", "set_mode", parts[2], <<>>)
                 ELSE IF command \in {<<"q">>, <<"Q">>}
                 THEN Act("quit", "none", None, RPRT_OK)
                 ELSE IF command \in {<<"t">>, <<"T">>}
                 THEN IF Len(parts) = 1
                      THEN Act("reply", "none", None, PTT_RX)
                      ELSE Act("reply", "none", None, RPRT_OK)
                 ELSE IF command = CmdDumpState
                 THEN Act("reply", "none", None, DumpStateReply)
                 ELSE Act("reply", "none", None, UnknownReply)

GetFreqReply_Khz(freq) ==
    IF Truthy(freq) THEN IntToStr(freq[1] \div 1000) \o <<"\n">> ELSE RPRT_ERR

\* The reply to f, from what get_flrig_frequency() returned.
GetFreqReply(freq) ==
    IF Truthy(freq) THEN IntToStr(freq[1]) \o <<"\n">> ELSE RPRT_ERR

\* The reply to m, from what get_flrig_mode() returned.
GetModeReply(mode) == mode \o PASSBAND

SetReply_AlwaysOk(ok) == RPRT_OK

\* The reply to F <hz> and M <mode>, from what the setter returned.
SetReply(ok) == IF ok THEN RPRT_OK ELSE RPRT_ERR

\* The loop head after a pass: while self.running, else finally: conn.close().
LoopHead == IF running THEN "recv" ELSE "closed"

AfterQuit_Loop == "recv"

\* Lines 214-215 and 235-236: after the reply to q, break and conn.close().
AfterQuit == "closed"

\* rigctld_server_loop: accept() hands a new connection to a handler thread.
Accept(c) ==
    /\ server = "listening"
    /\ running
    /\ hpc[c] = "idle"
    /\ \A d \in Conns : d < c => hpc[d] # "idle"
    /\ Cardinality({d \in Conns : hpc[d] # "idle"}) < MaxClients
    /\ \E s \in Scripts : script' = [script EXCEPT ![c] = s]
    /\ hpc' = [hpc EXCEPT ![c] = "recv"]
    /\ UNCHANGED <<fsync, loops, gqrx_cmds, rigVars, gqrxVars, gqrx_sock, gqrx_rx, last_freq, freq_lock, running, main, server,
                   sync, nread, call, sent, raced, rt, env, ticks>>

\* data = conn.recv(1024), and the pass over it up to its reply or its call.
Recv(c) ==
    /\ hpc[c] = "recv"
    /\ \E k \in (nread[c] + 1)..Len(script[c]) :
        LET data == Concat(SubSeq(script[c], nread[c] + 1, k))
            act == Dispatch(data)
        IN  /\ nread' = [nread EXCEPT ![c] = k]
            /\ IF act.kind = "continue"
               THEN /\ hpc' = [hpc EXCEPT ![c] = LoopHead]
                    /\ UNCHANGED <<call, sent, raced>>
               ELSE IF act.kind = "reply"
               THEN /\ sent' = [sent EXCEPT ![c] = Append(@, act.reply)]
                    /\ hpc' = [hpc EXCEPT ![c] = LoopHead]
                    /\ UNCHANGED <<call, raced>>
               ELSE IF act.kind = "quit"
               THEN /\ sent' = [sent EXCEPT ![c] = Append(@, act.reply)]
                    /\ hpc' = [hpc EXCEPT ![c] = AfterQuit]
                    /\ UNCHANGED <<call, raced>>
               ELSE /\ call' = [call EXCEPT ![c] = [op |-> act.op, arg |-> act.arg]]
                    /\ hpc' = [hpc EXCEPT ![c] = "rpc"]
                    /\ raced' = RacedAtBegin(c)
                    /\ UNCHANGED sent
    /\ UNCHANGED <<fsync, loops, gqrx_cmds, rigVars, gqrxVars, gqrx_sock, gqrx_rx, last_freq, freq_lock, running, main, server,
                   sync, script, rt, env, ticks>>

\* recv() returns b"" once the client has closed: break, conn.close().
RecvEof(c) ==
    /\ hpc[c] = "recv"
    /\ nread[c] = Len(script[c])
    /\ hpc' = [hpc EXCEPT ![c] = "closed"]
    /\ UNCHANGED <<fsync, loops, gqrx_cmds, rigVars, gqrxVars, gqrx_sock, gqrx_rx, last_freq, freq_lock, running, main, server,
                   sync, script, nread, call, sent, raced, rt, env, ticks>>

\* No connection's last F is the rig's latest write any more.
NoRt == [d \in Conns |-> None]

\* get_flrig_frequency() returns: int(freq), or None after an exception.
GetVfoEnd(c) ==
    /\ hpc[c] = "rpc" /\ call[c].op = "get_vfo"
    /\ \E o \in RpcOutcomes(c) :
        LET freq == IF o.ok THEN Some(PyFloat(rigFreq)) ELSE None
        IN  sent' = [sent EXCEPT ![c] = Append(@, GetFreqReply(freq))]
    /\ hpc' = [hpc EXCEPT ![c] = LoopHead]
    /\ call' = [call EXCEPT ![c] = NoCall]
    /\ raced' = raced \ {c}
    /\ UNCHANGED <<fsync, loops, gqrx_cmds, rigVars, gqrxVars, gqrx_sock, gqrx_rx, last_freq, freq_lock, running, main, server,
                   sync, script, nread, rt, env, ticks>>

\* self.flrig.rig.set_frequency(float(freq)) returns or raises.  After it
\* returned, set_flrig_frequency still has to take freq_lock.
SetFreqEnd(c) ==
    /\ hpc[c] = "rpc" /\ call[c].op = "set_frequency"
    /\ \E o \in RpcOutcomes(c) :
        /\ rigFreq' = IF o.applied THEN PyFloat(call[c].arg[1]) ELSE rigFreq
        /\ rt' = IF o.applied
                 THEN [NoRt EXCEPT ![c] = IF o.ok THEN call[c].arg ELSE None]
                 ELSE rt
        /\ IF o.ok
           THEN /\ hpc' = [hpc EXCEPT ![c] = "lock"]
                /\ UNCHANGED <<call, sent>>
           ELSE /\ sent' = [sent EXCEPT ![c] = Append(@, SetReply(FALSE))]
                /\ hpc' = [hpc EXCEPT ![c] = LoopHead]
                /\ call' = [call EXCEPT ![c] = NoCall]
    /\ raced' = raced \ {c}
    /\ UNCHANGED <<fsync, loops, gqrx_cmds, rigMode, rigUp, gqrxVars, gqrx_sock, gqrx_rx, last_freq, freq_lock,
                   running, main, server, sync, script, nread, env, ticks>>

SetFreqLock_NoLock(c) ==
    /\ hpc[c] = "lock"
    /\ last_freq' = call[c].arg
    /\ sent' = [sent EXCEPT ![c] = Append(@, SetReply(TRUE))]
    /\ hpc' = [hpc EXCEPT ![c] = LoopHead]
    /\ call' = [call EXCEPT ![c] = NoCall]
    /\ UNCHANGED <<fsync, loops, gqrx_cmds, rigVars, gqrxVars, gqrx_sock, gqrx_rx, freq_lock, running, main, server, sync,
                   script, nread, raced, rt, env, ticks>>

\* with self.freq_lock: self.last_freq = freq; return True; the reply.
SetFreqLock(c) ==
    /\ hpc[c] = "lock"
    /\ freq_lock = None
    /\ last_freq' = call[c].arg
    /\ sent' = [sent EXCEPT ![c] = Append(@, SetReply(TRUE))]
    /\ hpc' = [hpc EXCEPT ![c] = LoopHead]
    /\ call' = [call EXCEPT ![c] = NoCall]
    /\ UNCHANGED <<fsync, loops, gqrx_cmds, rigVars, gqrxVars, gqrx_sock, gqrx_rx, freq_lock, running, main, server, sync,
                   script, nread, raced, rt, env, ticks>>

\* get_flrig_mode() returns: the mapped mode, or 'USB' after an exception.
GetModeEnd(c) ==
    /\ hpc[c] = "rpc" /\ call[c].op = "get_mode"
    /\ \E o \in RpcOutcomes(c) :
        LET mode == IF o.ok THEN ModeMap(rigMode) ELSE USB
        IN  sent' = [sent EXCEPT ![c] = Append(@, GetModeReply(mode))]
    /\ hpc' = [hpc EXCEPT ![c] = LoopHead]
    /\ call' = [call EXCEPT ![c] = NoCall]
    /\ raced' = raced \ {c}
    /\ UNCHANGED <<fsync, loops, gqrx_cmds, rigVars, gqrxVars, gqrx_sock, gqrx_rx, last_freq, freq_lock, running, main, server,
                   sync, script, nread, rt, env, ticks>>

\* set_flrig_mode(mode) returns True, or False after an exception.
SetModeEnd(c) ==
    /\ hpc[c] = "rpc" /\ call[c].op = "set_mode"
    /\ \E o \in RpcOutcomes(c) :
        /\ rigMode' = IF o.applied THEN call[c].arg ELSE rigMode
        /\ sent' = [sent EXCEPT ![c] = Append(@, SetReply(o.ok))]
    /\ hpc' = [hpc EXCEPT ![c] = LoopHead]
    /\ call' = [call EXCEPT ![c] = NoCall]
    /\ raced' = raced \ {c}
    /\ UNCHANGED <<fsync, loops, gqrx_cmds, rigFreq, rigUp, gqrxVars, gqrx_sock, gqrx_rx, last_freq, freq_lock,
                   running, main, server, sync, script, nread, rt, env, ticks>>

ConnFault_StopsAll(c) ==
    /\ hpc[c] = "recv"
    /\ hpc' = [hpc EXCEPT ![c] = "closed"]
    /\ running' = FALSE
    /\ UNCHANGED <<fsync, loops, gqrx_cmds, rigVars, gqrxVars, gqrx_sock, gqrx_rx, last_freq, freq_lock, main,
                   server, sync, script, nread, call, sent, raced, rt, env,
                   ticks>>

\* conn.recv() raises (the client reset the connection), or data.decode()
\* raises on bytes that are not UTF-8: except Exception, then conn.close().
\* A sendall() on a reset connection ends in the same except clause.
ConnFault(c) ==
    /\ hpc[c] = "recv"
    /\ hpc' = [hpc EXCEPT ![c] = "closed"]
    /\ UNCHANGED <<fsync, loops, gqrx_cmds, rigVars, gqrxVars, gqrx_sock, gqrx_rx, last_freq, freq_lock, running,
                   main, server, sync, script, nread, call, sent, raced, rt,
                   env, ticks>>

Handler(c) ==
    \/ Accept(c)
    \/ Recv(c)
    \/ RecvEof(c)
    \/ ConnFault(c)
    \/ GetVfoEnd(c)
    \/ SetFreqEnd(c)
    \/ SetFreqLock(c)
    \/ GetModeEnd(c)
    \/ SetModeEnd(c)

\* ------------------------------------------------------------ GQRX client
\* send_gqrx_command(cmd) on the socket as it is: None without a socket;
\* an exception (self.gqrx_sock = None, return None) on a broken one.
GqrxAnswers == gqrx_sock = Some("open") /\ gqrxUp

SockAfterCommand ==
    IF gqrx_sock = None \/ GqrxAnswers THEN gqrx_sock ELSE None

\* GQRX's response line to "f", stripped.
GqrxFreqLine == IntToStr(gqrxFreq)

\* get_gqrx_frequency(): int(response) unless the response is empty,
\* "RPRT 1" or not a number.
ParseGqrxFreq(response) ==
    IF response # None /\ response[1] # <<>> /\ response[1] # <<"R", "P", "R", "T", " ", "1">>
    THEN IF IsInt(response[1]) THEN Some(PyInt(response[1])) ELSE None
    ELSE None

\* set_gqrx_frequency(freq): response == "RPRT 0".
GqrxSetOk(response) == response = Some(<<"R", "P", "R", "T", " ", "0">>)

\* GQRX's response line to "F <freq>", stripped.
GqrxSetLine == <<"R", "P", "R", "T", " ", "0">>

\* The bytes waiting on the socket once GQRX has answered a command with
\* line: what earlier recv() calls left unread, then the line and its "\n".
GqrxStream(line) == gqrx_rx \o line \o <<"\n">>

\* How many bytes self.gqrx_sock.recv(1024) may return when the whole
\* stream is at hand: all of it, or, when recv() returns before GQRX has
\* answered, only what was left unread.
RecvWhole(line) ==
    {Len(GqrxStream(line))} \cup (IF gqrx_rx = <<>> THEN {} ELSE {Len(gqrx_rx)})

\* The first piece of a response line that arrives in more than one piece.
GqrxCuts == {2, 4}

\* How many bytes recv(1024) may return when the line arrives in pieces.
RecvPiece(line) == {Len(gqrx_rx) + k : k \in {c \in GqrxCuts : c <= Len(line)}}

\* response = self.gqrx_sock.recv(1024).decode().strip(), n bytes returned.
GqrxResponse(line, n) == Strip(SubSeq(GqrxStream(line), 1, n))

\* What recv() leaves unread.
GqrxUnread(line, n) == SubSeq(GqrxStream(line), n + 1, Len(GqrxStream(line)))

\* connect_gqrx(): a socket, or None when nothing listens.
ConnectGqrx == IF gqrxUp THEN Some("open") ELSE None

\* --------------------------------------------------------- gqrx_sync_loop
Tick == IF ticks < MaxTicks THEN ticks + 1 ELSE ticks

AtHead == [pc |-> "head", gqrx_freq |-> None, flrig_freq |-> None]

\* while self.running: left once the flag is down.
ReconExit ==
    /\ sync.pc = "head"
    /\ ~running
    /\ sync' = [sync EXCEPT !.pc = "exit"]
    /\ UNCHANGED <<fsync, loops, gqrx_cmds, rigVars, gqrxVars, gqrx_sock, gqrx_rx, last_freq, freq_lock, running, main, server,
                   connVars, raced, rt, env, ticks>>

ReconSleep_Redial ==
    /\ sync.pc = "head"
    /\ running
    /\ sync' = [sync EXCEPT !.pc = "reconnect"]
    /\ UNCHANGED <<fsync, loops, gqrx_cmds, rigVars, gqrxVars, gqrx_sock, gqrx_rx, last_freq, freq_lock, running,
                   main, server, connVars, raced, rt, env, ticks>>

\* while self.running: if not self.gqrx_sock: time.sleep(5) ...
ReconSleep ==
    /\ sync.pc = "head"
    /\ running
    /\ gqrx_sock = None
    /\ sync' = [sync EXCEPT !.pc = "reconnect"]
    /\ UNCHANGED <<fsync, loops, gqrx_cmds, rigVars, gqrxVars, gqrx_sock, gqrx_rx, last_freq, freq_lock, running,
                   main, server, connVars, raced, rt, env, ticks>>

\* ... self.gqrx_sock = self.connect_gqrx(); continue: the flag is not looked
\* at between the sleep and the connect.
ReconReconnect ==
    /\ sync.pc = "reconnect"
    /\ gqrx_sock' = ConnectGqrx
    /\ gqrx_rx' = <<>>
    /\ sync' = AtHead
    /\ UNCHANGED <<fsync, loops, gqrx_cmds, rigVars, gqrxVars, last_freq, freq_lock, running, main,
                   server, connVars, raced, rt, env, ticks>>

\* gqrx_freq = self.get_gqrx_frequency(); then get_flrig_frequency() begins.
ReconPoll ==
    /\ sync.pc = "head"
    /\ running
    /\ gqrx_sock # None
    /\ IF GqrxAnswers
       THEN \E n \in RecvWhole(GqrxFreqLine) :
               /\ sync' = [pc |-> "rigread",
                           gqrx_freq |-> ParseGqrxFreq(Some(GqrxResponse(GqrxFreqLine, n))),
                           flrig_freq |-> None]
               /\ gqrx_rx' = GqrxUnread(GqrxFreqLine, n)
       ELSE /\ sync' = [pc |-> "rigread", gqrx_freq |-> None, flrig_freq |-> None]
            /\ gqrx_rx' = <<>>
    /\ gqrx_sock' = SockAfterCommand
    /\ raced' = RacedAtBegin(Recon)
    /\ UNCHANGED <<fsync, loops, gqrx_cmds, rigVars, gqrxVars, last_freq, freq_lock, running, main, server, connVars,
                   rt, env, ticks>>

\* The same call when GQRX's response line reaches the bridge in pieces:
\* the one recv(1024) returns the first piece and leaves the rest unread.
ReconPollFragment ==
    /\ sync.pc = "head"
    /\ running
    /\ GqrxAnswers
    /\ env < MaxEnv
    /\ \E n \in RecvPiece(GqrxFreqLine) :
          /\ sync' = [pc |-> "rigread",
                      gqrx_freq |-> ParseGqrxFreq(Some(GqrxResponse(GqrxFreqLine, n))),
                      flrig_freq |-> None]
          /\ gqrx_rx' = GqrxUnread(GqrxFreqLine, n)
    /\ env' = env + 1
    /\ raced' = RacedAtBegin(Recon)
    /\ UNCHANGED <<fsync, loops, gqrx_cmds, rigVars, gqrxVars, gqrx_sock, last_freq, freq_lock, running, main,
                   server, connVars, rt, ticks>>

ReconRigRead_Dies ==
    /\ sync.pc = "rigread"
    /\ \E o \in RpcOutcomes(Recon) :
        sync' = IF o.ok
                THEN [sync EXCEPT !.pc = "decide", !.flrig_freq = Some(PyFloat(rigFreq))]
                ELSE [sync EXCEPT !.pc = "exit"]
    /\ raced' = raced \ {Recon}
    /\ UNCHANGED <<fsync, loops, gqrx_cmds, rigVars, gqrxVars, gqrx_sock, gqrx_rx, last_freq, freq_lock, running,
                   main, server, connVars, rt, env, ticks>>

\* flrig_freq = self.get_flrig_frequency() returns.
ReconRigRead ==
    /\ sync.pc = "rigread"
    /\ \E o \in RpcOutcomes(Recon) :
        sync' = [sync EXCEPT !.pc = "decide",
                             !.flrig_freq = IF o.ok THEN Some(PyFloat(rigFreq)) ELSE None]
    /\ raced' = raced \ {Recon}
    /\ UNCHANGED <<fsync, loops, gqrx_cmds, rigVars, gqrxVars, gqrx_sock, gqrx_rx, last_freq, freq_lock, running, main, server,
                   connVars, rt, env, ticks>>

Decide_NoTolerance(gqrx_freq, flrig_freq, last) ==
    IF Truthy(gqrx_freq) /\ Truthy(flrig_freq) /\ Abs(gqrx_freq[1] - flrig_freq[1]) > 0
    THEN IF last = None THEN "first"
         ELSE IF Abs(gqrx_freq[1] - last[1]) > Abs(flrig_freq[1] - last[1])
              THEN "to_rig"
              ELSE "to_gqrx"
    ELSE "adopt"

Decide_TieToRig(gqrx_freq, flrig_freq, last) ==
    IF Truthy(gqrx_freq) /\ Truthy(flrig_freq) /\ Abs(gqrx_freq[1] - flrig_freq[1]) > 1
    THEN IF last = None THEN "first"
         ELSE IF Abs(gqrx_freq[1] - last[1]) >= Abs(flrig_freq[1] - last[1])
              THEN "to_rig"
              ELSE "to_gqrx"
    ELSE "adopt"

\* Lines 138-153: which way the tick goes.
\*   "adopt": no discrepancy seen, last_freq follows what was read;
\*   "first": discrepancy, last_freq unset;  "to_rig": GQRX moved further;
\*   "to_gqrx": otherwise.
Decide(gqrx_freq, flrig_freq, last) ==
    IF Truthy(gqrx_freq) /\ Truthy(flrig_freq) /\ Abs(gqrx_freq[1] - flrig_freq[1]) > 1
    THEN IF last = None THEN "first"
         ELSE IF Abs(gqrx_freq[1] - last[1]) > Abs(flrig_freq[1] - last[1])
              THEN "to_rig"
              ELSE "to_gqrx"
    ELSE "adopt"

\* last_freq = gqrx_freq if gqrx_freq else flrig_freq
Adopted(gqrx_freq, flrig_freq) == IF Truthy(gqrx_freq) THEN gqrx_freq ELSE flrig_freq

\* self.last_freq after set_gqrx_frequency(flrig_freq) returned ok.
LastAfterPush(way, ok, flrig_freq, last) ==
    IF way = "first" THEN flrig_freq
    ELSE IF ok THEN flrig_freq ELSE last

\* The with self.freq_lock block of a tick that does not write the rig, and
\* the sleep after it.
ReconSettle ==
    /\ sync.pc = "decide"
    /\ freq_lock = None
    /\ LET way == Decide(sync.gqrx_freq, sync.flrig_freq, last_freq)
       IN  /\ way # "to_rig"
           /\ IF way = "adopt"
              THEN /\ last_freq' = Adopted(sync.gqrx_freq, sync.flrig_freq)
                   /\ UNCHANGED <<gqrxFreq, gqrx_sock, gqrx_rx>>
              ELSE /\ gqrxFreq' = IF GqrxAnswers THEN sync.flrig_freq[1] ELSE gqrxFreq
                   /\ gqrx_sock' = SockAfterCommand
                   /\ IF GqrxAnswers
                      THEN \E n \in RecvWhole(GqrxSetLine) :
                              /\ gqrx_rx' = GqrxUnread(GqrxSetLine, n)
                              /\ last_freq' =
                                    LastAfterPush(way,
                                                  GqrxSetOk(Some(GqrxResponse(GqrxSetLine, n))),
                                                  sync.flrig_freq, last_freq)
                      ELSE /\ gqrx_rx' = <<>>
                           /\ last_freq' =
                                 LastAfterPush(way, GqrxSetOk(None), sync.flrig_freq, last_freq)
    /\ sync' = AtHead
    /\ ticks' = Tick
    /\ UNCHANGED <<fsync, loops, gqrx_cmds, rigVars, gqrxUp, freq_lock, running, main, server, connVars, raced, rt, env>>

\* with self.freq_lock: ... self.set_flrig_frequency(gqrx_freq) begins its call.
ReconPushRig ==
    /\ sync.pc = "decide"
    /\ freq_lock = None
    /\ Decide(sync.gqrx_freq, sync.flrig_freq, last_freq) = "to_rig"
    /\ freq_lock' = Some(Recon)
    /\ sync' = [sync EXCEPT !.pc = "rigwrite"]
    /\ raced' = RacedAtBegin(Recon)
    /\ UNCHANGED <<fsync, loops, gqrx_cmds, rigVars, gqrxVars, gqrx_sock, gqrx_rx, last_freq, running, main, server, connVars,
                   rt, env, ticks>>

\* self.flrig.rig.set_frequency(float(gqrx_freq)) returns or raises, inside
\* the reconciler's with self.freq_lock block.  After it returned,
\* set_flrig_frequency takes freq_lock itself: threading.Lock is not
\* reentrant, so the thread waits at "relock" for a release only it could do.
\* After it raised, set_flrig_frequency returns False and the tick ends.
ReconRigWrite ==
    /\ sync.pc = "rigwrite"
    /\ \E o \in RpcOutcomes(Recon) :
        /\ rigFreq' = IF o.applied THEN PyFloat(sync.gqrx_freq[1]) ELSE rigFreq
        /\ rt' = IF o.applied THEN NoRt ELSE rt
        /\ IF o.ok
           THEN /\ sync' = [sync EXCEPT !.pc = "relock"]
                /\ UNCHANGED <<freq_lock, ticks>>
           ELSE /\ sync' = AtHead
                /\ freq_lock' = None
                /\ ticks' = Tick
    /\ raced' = raced \ {Recon}
    /\ UNCHANGED <<fsync, loops, gqrx_cmds, rigMode, rigUp, gqrxVars, gqrx_sock, gqrx_rx, last_freq, running, main, server,
                   connVars, env>>

Reconciler ==
    \/ ReconExit
    \/ ReconSleep
    \/ ReconReconnect
    \/ ReconPoll
    \/ ReconPollFragment
    \/ ReconRigRead
    \/ ReconSettle
    \/ ReconPushRig
    \/ ReconRigWrite

\* ------------------------------------------------------------------ run()
RunStart_NoProbe ==
    /\ main = "start"
    /\ main' = "serving"
    /\ sync' = AtHead
    /\ UNCHANGED <<fsync, loops, gqrx_cmds, rigVars, gqrxVars, gqrx_sock, gqrx_rx, last_freq, freq_lock, running,
                   server, connVars, raced, rt, env, ticks>>

\* Lines 272-299: the probe of FlRig; when it raises run() returns, else the
\* two daemon threads are started and the main thread sleeps in its loop.
RunStart ==
    /\ main = "start"
    /\ IF rigUp
       THEN /\ main' = "serving"
            /\ sync' = AtHead
       ELSE /\ main' = "aborted"
            /\ UNCHANGED sync
    /\ UNCHANGED <<fsync, loops, gqrx_cmds, rigVars, gqrxVars, gqrx_sock, gqrx_rx, last_freq, freq_lock, running,
                   server, connVars, raced, rt, env, ticks>>

\* Lines 243-249, in the rigctld thread: socket, bind, listen.  bind() raises
\* OSError when the port is taken; nothing catches it, the thread ends.
ServerBind ==
    /\ main \in {"serving", "stopped"}
    /\ server = "off"
    /\ server' \in {"listening", "dead"}
    /\ UNCHANGED <<fsync, loops, gqrx_cmds, rigVars, gqrxVars, gqrx_sock, gqrx_rx, last_freq, freq_lock, running,
                   main, sync, connVars, raced, rt, env, ticks>>

\* Lines 252 and 263-264: the accept loop sees the flag down, server.close().
ServerExit ==
    /\ server = "listening"
    /\ ~running
    /\ server' = "exit"
    /\ UNCHANGED <<fsync, loops, gqrx_cmds, rigVars, gqrxVars, gqrx_sock, gqrx_rx, last_freq, freq_lock, running,
                   main, sync, connVars, raced, rt, env, ticks>>

Main ==
    \/ RunStart
    \/ ServerBind
    \/ ServerExit

\* -------------------------------------------------------- the environment
\* The operator turns the rig's dial.
RigTune ==
    /\ env < MaxEnv
    /\ \E f \in TuneFreqs \ {rigFreq} : rigFreq' = f
    /\ rt' = NoRt
    /\ env' = env + 1
    /\ UNCHANGED <<fsync, loops, gqrx_cmds, rigMode, rigUp, gqrxVars, gqrx_sock, gqrx_rx, last_freq, freq_lock,
                   running, main, server, sync, connVars, raced, ticks>>

\* The operator clicks in GQRX's waterfall.
GqrxTune ==
    /\ env < MaxEnv
    /\ gqrxUp
    /\ \E f \in TuneFreqs \ {gqrxFreq} : gqrxFreq' = f
    /\ env' = env + 1
    /\ UNCHANGED <<fsync, loops, gqrx_cmds, rigVars, gqrxUp, gqrx_sock, gqrx_rx, last_freq, freq_lock, running, main, server,
                   sync, connVars, raced, rt, ticks>>

\* FlRig goes away or comes back.
RigToggle ==
    /\ env < MaxEnv
    /\ rigUp' = ~rigUp
    /\ env' = env + 1
    /\ UNCHANGED <<fsync, loops, gqrx_cmds, rigFreq, rigMode, gqrxVars, gqrx_sock, gqrx_rx, last_freq, freq_lock,
                   running, main, server, sync, connVars, raced, rt, ticks>>

\* GQRX goes away (an open socket to it is broken from then on) or comes back.
GqrxToggle ==
    /\ env < MaxEnv
    /\ gqrxUp' = ~gqrxUp
    /\ gqrx_sock' = IF gqrxUp /\ gqrx_sock = Some("open")
                    THEN Some("broken")
                    ELSE gqrx_sock
    /\ env' = env + 1
    /\ UNCHANGED <<fsync, loops, gqrx_cmds, rigVars, gqrxFreq, gqrx_rx, last_freq, freq_lock, running, main, server, sync,
                   connVars, raced, rt, ticks>>

\* run(): Ctrl+C; finally: self.running = False, self.gqrx_sock.close().
Shutdown ==
    /\ env < MaxEnv
    /\ main = "serving"
    /\ running
    /\ running' = FALSE
    /\ main' = "stopped"
    /\ gqrx_sock' = IF gqrx_sock # None THEN Some("broken") ELSE gqrx_sock
    /\ env' = env + 1
    /\ UNCHANGED <<fsync, loops, gqrx_cmds, rigVars, gqrxVars, gqrx_rx, last_freq, freq_lock, server, sync,
                   connVars, raced, rt, ticks>>

Environment ==
    \/ Shutdown
    \/ RigTune
    \/ GqrxTune
    \/ RigToggle
    \/ GqrxToggle

\* ------------------------------------- flrig-gqrx-bridge.py (GQRXFlRigBridge)
\* send_gqrx_command(cmd) of GQRXFlRigBridge: None without a socket; on an
\* exception it returns None and keeps self.gqrx_sock as it is.
BridgeResponse(line) == IF GqrxAnswers THEN Some(line) ELSE None

BridgeSockAfterCommand ==
    IF gqrx_sock = None \/ GqrxAnswers THEN gqrx_sock ELSE Some("faulted")

\* Lines 128-152 of sync_frequencies: which way the pass goes.
BridgeDecide(gqrx_freq, flrig_freq, last) ==
    IF gqrx_freq = None \/ flrig_freq = None THEN "skip"
    ELSE IF Abs(gqrx_freq[1] - flrig_freq[1]) > 1
    THEN IF last = None THEN "first"
         ELSE IF Abs(gqrx_freq[1] - last[1]) > Abs(flrig_freq[1] - last[1])
              THEN "to_rig"
              ELSE "to_gqrx"
    ELSE "adopt"

\* One pass of sync_frequencies, the program's only thread: both reads, the
\* decision, the write it leads to, and the sleep.
BridgeSyncPass ==
    /\ running
    /\ LET gqrx_freq == ParseGqrxFreq(BridgeResponse(GqrxFreqLine))
           flrig_freq == IF rigUp THEN Some(PyFloat(rigFreq)) ELSE None
           way == BridgeDecide(gqrx_freq, flrig_freq, last_freq)
       IN  /\ gqrx_sock' = BridgeSockAfterCommand
           /\ rigFreq' = IF way = "to_rig" THEN PyFloat(gqrx_freq[1]) ELSE rigFreq
           /\ gqrxFreq' = IF way \in {"first", "to_gqrx"} THEN flrig_freq[1] ELSE gqrxFreq
           /\ last_freq' = IF way = "skip" THEN last_freq
                           ELSE IF way \in {"to_rig", "adopt"} THEN gqrx_freq
                           ELSE flrig_freq
    /\ ticks' = Tick
    /\ UNCHANGED <<fsync, loops, gqrx_cmds, rigMode, rigUp, gqrxUp, gqrx_rx, freq_lock, running, main, server,
                   sync, connVars, raced, rt, env>>

\* ------------------------------------- flrig-bridge.py (FlRigBridge)
\* str.lower()
Lower(s) ==
    LET upper == <<"A", "B", "C", "D", "E", "F", "G", "H", "I", "J", "K", "L", "M",
                   "N", "O", "P", "Q", "R", "S", "T", "U", "V", "W", "X", "Y", "Z">>
        lower == <<"a", "b", "c", "d", "e", "f", "g", "h", "i", "j", "k", "l", "m",
                   "n", "o", "p", "q", "r", "s", "t", "u", "v", "w", "x", "y", "z">>
    IN  [i \in 1..Len(s) |->
            IF \E j \in 1..26 : upper[j] = s[i]
            THEN lower[CHOOSE j \in 1..26 : upper[j] = s[i]]
            ELSE s[i]]

\* One pass of FlRigBridge.handle_client: data = conn.recv(1024), the branch
\* taken on command = parts[0].lower(), its call to FlRig and its reply.
handle_client(c) ==
    /\ hpc[c] = "recv"
    /\ \E k \in (nread[c] + 1)..Len(script[c]) :
        LET data == Concat(SubSeq(script[c], nread[c] + 1, k))
            parts == Split(Strip(data))
            command == Lower(parts[1])
            Pass(reply, freq, mode, next) ==
                /\ sent' = [sent EXCEPT ![c] = Append(@, reply)]
                /\ rigFreq' = freq
                /\ rigMode' = mode
                /\ hpc' = [hpc EXCEPT ![c] = next]
        IN  /\ nread' = [nread EXCEPT ![c] = k]
            /\ IF parts = <<>>
               THEN /\ hpc' = [hpc EXCEPT ![c] = LoopHead]
                    /\ UNCHANGED <<sent, rigFreq, rigMode>>
               ELSE IF command = <<"f">>
               THEN Pass(GetFreqReply(IF rigUp THEN Some(PyFloat(rigFreq)) ELSE None),
                         rigFreq, rigMode, LoopHead)
               ELSE IF command = <<"F">> /\ Len(parts) > 1
               THEN IF IsInt(parts[2])
                    THEN Pass(SetReply(rigUp),
                              IF rigUp THEN PyInt(parts[2]) ELSE rigFreq, rigMode, LoopHead)
                    ELSE Pass(RPRT_ERR, rigFreq, rigMode, LoopHead)
               ELSE IF command = <<"m">>
               THEN Pass(GetModeReply(IF rigUp THEN ModeMap(rigMode) ELSE USB),
                         rigFreq, rigMode, LoopHead)
               ELSE IF command = <<"M">> /\ Len(parts) > 1
               THEN Pass(SetReply(rigUp), rigFreq,
                         IF rigUp THEN parts[2] ELSE rigMode, LoopHead)
               ELSE IF command = <<"q">>
               THEN Pass(RPRT_OK, rigFreq, rigMode, "closed")
               ELSE IF command = <<"t">>
               THEN Pass(<<"0", "\n">>, rigFreq, rigMode, LoopHead)
               ELSE IF command = <<"T">>
               THEN Pass(RPRT_OK, rigFreq, rigMode, LoopHead)
               ELSE IF command = CmdDumpState
               THEN Pass(DUMP_STATE, rigFreq, rigMode, LoopHead)
               ELSE Pass(RPRT_ERR, rigFreq, rigMode, LoopHead)
    /\ rt' = NoRt
    /\ UNCHANGED <<fsync, loops, gqrx_cmds, rigUp, gqrxVars, gqrx_sock, gqrx_rx, last_freq, freq_lock, running,
                   main, server, sync, script, call, raced, env, ticks>>

\* ----------------------- frequency_sync.py (GQRXControl, FrequencySync)
\* What GQRXControl.send_command may return for a command it sent: the
\* response read by its one recv(1024), stripped (GQRX's line, or that line
\* after the unread tail of an earlier response), or None after a fault.
ControlResponses ==
    {Some(<<"R", "P", "R", "T", " ", "0">>),
     Some(<<"R", "P", "R", "T", " ", "1">>),
     Some(<<"R", "T", " ", "1", "\n", "R", "P", "R", "T", " ", "0">>),
     None}

\* GQRXControl.set_frequency and set_mode: response and "RPRT 0" in response.
set_frequency(response) ==
    /\ response # None
    /\ response[1] # <<>>
    /\ \E i \in 1..(Len(response[1]) - 5) :
          SubSeq(response[1], i, i + 5) = <<"R", "P", "R", "T", " ", "0">>

sync_once_EagerCursor(rf, rm) ==
    LET frequency == IF rigUp THEN Some(PyFloat(rigFreq)) ELSE None
        mode == IF rigUp THEN Some(rigMode) ELSE None
        same == [last_frequency |-> fsync.last_frequency, last_mode |-> fsync.last_mode,
                 connected |-> fsync.connected, cmds |-> <<>>, ret |-> FALSE]
    IN  IF frequency = None \/ mode = None
        THEN same
        ELSE LET frequency_changed == frequency[1] # fsync.last_frequency
                 mode_changed == mode[1] # fsync.last_mode
                 fsent == frequency_changed /\ fsync.connected
                 fok == fsent /\ set_frequency(rf)
                 c1 == IF fsent /\ rf = None THEN FALSE ELSE fsync.connected
                 fcmds == IF fsent
                          THEN <<[verb |-> "F", arg |-> frequency[1], response |-> rf,
                                  ok |-> fok]>>
                          ELSE <<>>
                 msent == mode_changed /\ c1
                 mok == msent /\ set_frequency(rm)
                 c2 == IF msent /\ rm = None THEN FALSE ELSE c1
                 mcmds == IF msent
                          THEN <<[verb |-> "M", arg |-> mode[1], response |-> rm,
                                  ok |-> mok]>>
                          ELSE <<>>
             IN  IF frequency_changed /\ ~fok
                 THEN [same EXCEPT !.connected = c1, !.cmds = fcmds,
                            !.last_frequency = frequency[1]]
                 ELSE [last_frequency |-> frequency[1],
                       last_mode |-> IF mode_changed /\ mok THEN mode[1] ELSE fsync.last_mode,
                       connected |-> c2,
                       cmds |-> fcmds \o mcmds,
                       ret |-> ~mode_changed \/ mok]

\* FrequencySync.sync_once() when GQRX would answer a frequency command with
\* rf and a mode command with rm: the fields it leaves, the commands it sent
\* and what it returns.
sync_once(rf, rm) ==
    LET frequency == IF rigUp THEN Some(PyFloat(rigFreq)) ELSE None
        mode == IF rigUp THEN Some(rigMode) ELSE None
        same == [last_frequency |-> fsync.last_frequency, last_mode |-> fsync.last_mode,
                 connected |-> fsync.connected, cmds |-> <<>>, ret |-> FALSE]
    IN  IF frequency = None \/ mode = None
        THEN same
        ELSE LET frequency_changed == frequency[1] # fsync.last_frequency
                 mode_changed == mode[1] # fsync.last_mode
                 fsent == frequency_changed /\ fsync.connected
                 fok == fsent /\ set_frequency(rf)
                 c1 == IF fsent /\ rf = None THEN FALSE ELSE fsync.connected
                 fcmds == IF fsent
                          THEN <<[verb |-> "F", arg |-> frequency[1], response |-> rf,
                                  ok |-> fok]>>
                          ELSE <<>>
                 msent == mode_changed /\ c1
                 mok == msent /\ set_frequency(rm)
                 c2 == IF msent /\ rm = None THEN FALSE ELSE c1
                 mcmds == IF msent
                          THEN <<[verb |-> "M", arg |-> mode[1], response |-> rm,
                                  ok |-> mok]>>
                          ELSE <<>>
             IN  IF frequency_changed /\ ~fok
                 THEN [same EXCEPT !.connected = c1, !.cmds = fcmds]
                 ELSE [last_frequency |-> frequency[1],
                       last_mode |-> IF mode_changed /\ mok THEN mode[1] ELSE fsync.last_mode,
                       connected |-> c2,
                       cmds |-> fcmds \o mcmds,
                       ret |-> ~mode_changed \/ mok]

\* FrequencySync.start(): False while running or not connected; otherwise
\* the initial sync_once(), self.running = True and a new loop thread.
start ==
    /\ ~fsync.joining
    /\ IF fsync.running \/ ~fsync.connected
       THEN /\ fsync' = [fsync EXCEPT !.started = Some(FALSE)]
            /\ UNCHANGED <<loops, gqrx_cmds, gqrxFreq>>
       ELSE /\ fsync.thread < MaxStarts
            /\ \E rf \in ControlResponses, rm \in ControlResponses :
                 LET r == sync_once(rf, rm)
                 IN  /\ fsync' = [fsync EXCEPT !.running = TRUE,
                                               !.thread = @ + 1,
                                               !.last_frequency = r.last_frequency,
                                               !.last_mode = r.last_mode,
                                               !.connected = r.connected,
                                               !.started = Some(TRUE)]
                     /\ gqrx_cmds' = r.cmds
                     /\ gqrxFreq' = IF r.cmds # <<>> /\ r.cmds[1].verb = "F" /\ r.cmds[1].ok
                                    THEN r.cmds[1].arg
                                    ELSE gqrxFreq
            /\ loops' = [loops EXCEPT ![fsync.thread + 1] = "head"]
    /\ UNCHANGED <<rigVars, gqrxUp, gqrx_sock, gqrx_rx, last_freq, freq_lock, running, main,
                   server, sync, connVars, raced, rt, env, ticks>>

\* FrequencySync.stop(): self.running = False, then self.thread.join(timeout=2.0),
\* which returns once the thread has ended or, while the thread is inside a
\* cycle, when the two seconds are over.
stop ==
    /\ \/ /\ fsync.running
          /\ ~fsync.joining
          /\ fsync' = [fsync EXCEPT !.running = FALSE, !.joining = TRUE]
       \/ /\ fsync.joining
          /\ loops[fsync.thread] \in {"cycle", "done"}
          /\ fsync' = [fsync EXCEPT !.joining = FALSE]
    /\ UNCHANGED <<rigVars, gqrxVars, gqrx_sock, gqrx_rx, last_freq, freq_lock, running, main,
                   server, sync, connVars, raced, rt, env, ticks, loops, gqrx_cmds>>

\* FrequencySync.sync_loop() in thread t: while self.running: sync_once(),
\* time.sleep(self.sync_interval).
sync_loop(t) ==
    /\ \/ /\ loops[t] = "head"
          /\ fsync.running
          /\ \E rf \in ControlResponses, rm \in ControlResponses :
               LET r == sync_once(rf, rm)
               IN  /\ fsync' = [fsync EXCEPT !.last_frequency = r.last_frequency,
                                             !.last_mode = r.last_mode,
                                             !.connected = r.connected]
                   /\ gqrx_cmds' = r.cmds
                   /\ gqrxFreq' = IF r.cmds # <<>> /\ r.cmds[1].verb = "F" /\ r.cmds[1].ok
                                  THEN r.cmds[1].arg
                                  ELSE gqrxFreq
          /\ loops' = [loops EXCEPT ![t] = "cycle"]
       \/ /\ loops[t] = "head"
          /\ ~fsync.running
          /\ loops' = [loops EXCEPT ![t] = "done"]
          /\ UNCHANGED <<fsync, gqrx_cmds, gqrxFreq>>
       \/ /\ loops[t] = "cycle"
          /\ loops' = [loops EXCEPT ![t] = "head"]
          /\ UNCHANGED <<fsync, gqrx_cmds, gqrxFreq>>
    /\ UNCHANGED <<rigVars, gqrxUp, gqrx_sock, gqrx_rx, last_freq, freq_lock, running, main,
                   server, sync, connVars, raced, rt, env, ticks>>

\* ------------------------------------------------------ specifications
\* The whole bridge: handlers, reconciler and environment.
Next ==
    \/ Main
    \/ \E c \in Conns : Handler(c)
    \/ Reconciler
    \/ Environment

Spec == Init /\ [][Next]_vars

\* The bridge with no GQRX to sync with ("GQRX sync will be disabled"): the
\* reconciler only retries its connect, the clients and the rig do the rest.
InitServer == Init /\ ~gqrxUp /\ gqrxFreq = 7000000

NextServer ==
    \/ RunStart
    \/ ServerBind
    \/ \E c \in Conns : Handler(c)
    \/ ReconSleep
    \/ ReconReconnect
    \/ RigTune
    \/ RigToggle

SpecServer == InitServer /\ [][NextServer]_vars

\* Two clients, connected, each about to send one F; no GQRX, the rig up.
ScriptF7000000 == <<SegF7000000>>

ScriptF14000000 == <<SegF14000000>>

InitWriters ==
    /\ rigFreq \in TuneFreqs
    /\ rigMode = LSB
    /\ rigUp = TRUE
    /\ gqrxFreq = 7000000
    /\ gqrxUp = FALSE
    /\ gqrx_sock = None
    /\ gqrx_rx = <<>>
    /\ fsync = [running |-> FALSE, thread |-> 0, last_frequency |-> 0, last_mode |-> <<>>,
                connected |-> FALSE, joining |-> FALSE, started |-> None]
    /\ loops = [t \in 1..MaxStarts |-> "none"]
    /\ gqrx_cmds = <<>>
    /\ last_freq \in {None, Some(rigFreq)}
    /\ freq_lock = None
    /\ running = TRUE
    /\ main = "serving"
    /\ server = "listening"
    /\ sync = AtHead
    /\ hpc = [c \in Conns |-> "recv"]
    /\ script = [c \in Conns |-> IF c % 2 = 1 THEN ScriptF7000000 ELSE ScriptF14000000]
    /\ nread = [c \in Conns |-> 0]
    /\ call = [c \in Conns |-> NoCall]
    /\ sent = [c \in Conns |-> <<>>]
    /\ raced = {}
    /\ rt = [c \in Conns |-> None]
    /\ env = 0
    /\ ticks = MaxTicks

NextWriters ==
    \E c \in Conns :
        \/ Recv(c)
        \/ SetFreqEnd(c)
        \/ SetFreqLock(c)
        \/ RecvEof(c)

SpecWriters == InitWriters /\ [][NextWriters]_vars

\* Rig and GQRX in step at y, both reachable, the reconciler's cursor at y,
\* and one client connected that is about to send F x, x far from y.
SyncedFreqs == {7000000, 7010000}

ClientSetScripts == {ScriptF14000000, ScriptRoundLo}

InitClientSet ==
    /\ rigFreq \in SyncedFreqs
    /\ rigMode = LSB
    /\ rigUp = TRUE
    /\ gqrxFreq = rigFreq
    /\ gqrxUp = TRUE
    /\ gqrx_sock = Some("open")
    /\ gqrx_rx = <<>>
    /\ fsync = [running |-> FALSE, thread |-> 0, last_frequency |-> 0, last_mode |-> <<>>,
                connected |-> FALSE, joining |-> FALSE, started |-> None]
    /\ loops = [t \in 1..MaxStarts |-> "none"]
    /\ gqrx_cmds = <<>>
    /\ last_freq = Some(rigFreq)
    /\ freq_lock = None
    /\ running = TRUE
    /\ main = "serving"
    /\ server = "listening"
    /\ sync = AtHead
    /\ hpc = [c \in Conns |-> IF c = 1 THEN "recv" ELSE "idle"]
    /\ \E s \in ClientSetScripts : script = [c \in Conns |-> IF c = 1 THEN s ELSE <<>>]
    /\ nread = [c \in Conns |-> 0]
    /\ call = [c \in Conns |-> NoCall]
    /\ sent = [c \in Conns |-> <<>>]
    /\ raced = {}
    /\ rt = [c \in Conns |-> None]
    /\ env = 0
    /\ ticks = MaxTicks

NextClientSet ==
    \/ \E c \in Conns : Recv(c) \/ SetFreqEnd(c) \/ SetFreqLock(c) \/ GetVfoEnd(c)
    \/ ReconPoll
    \/ ReconRigRead
    \/ ReconSettle
    \/ ReconPushRig
    \/ ReconRigWrite

SpecClientSet == InitClientSet /\ [][NextClientSet]_vars

\* The reconciler alone, both endpoints reachable: GQRX and the cursor at y,
\* the rig 10,000 Hz away.
ConvergeFreqs == {0, 10000, 7000000, 7010000, 14000000, 14010000}

InitConverge ==
    /\ gqrxFreq \in ConvergeFreqs
    /\ rigFreq \in {f \in {gqrxFreq - 10000, gqrxFreq + 10000} : f >= 0}
    /\ rigMode = LSB
    /\ rigUp = TRUE
    /\ gqrxUp = TRUE
    /\ gqrx_sock = Some("open")
    /\ gqrx_rx = <<>>
    /\ fsync = [running |-> FALSE, thread |-> 0, last_frequency |-> 0, last_mode |-> <<>>,
                connected |-> FALSE, joining |-> FALSE, started |-> None]
    /\ loops = [t \in 1..MaxStarts |-> "none"]
    /\ gqrx_cmds = <<>>
    /\ last_freq = Some(gqrxFreq)
    /\ freq_lock = None
    /\ running = TRUE
    /\ main = "serving"
    /\ server = "listening"
    /\ sync = AtHead
    /\ hpc = [c \in Conns |-> "idle"]
    /\ script = [c \in Conns |-> <<>>]
    /\ nread = [c \in Conns |-> 0]
    /\ call = [c \in Conns |-> NoCall]
    /\ sent = [c \in Conns |-> <<>>]
    /\ raced = {}
    /\ rt = [c \in Conns |-> None]
    /\ env = 0
    /\ ticks = 0

NextConverge ==
    \/ ReconPoll
    \/ ReconRigRead
    \/ ReconSettle

SpecConverge == InitConverge /\ [][NextConverge]_vars

\* The reconciler through an outage of GQRX: it starts with GQRX gone and
\* the socket to it broken; GQRX comes back, and the operator may have
\* turned either dial meanwhile.
InitOutage ==
    /\ rigFreq \in InitFreqs
    /\ rigMode = LSB
    /\ rigUp = TRUE
    /\ gqrxFreq \in InitFreqs \cup {7010000}
    /\ gqrxUp = FALSE
    /\ gqrx_sock = Some("broken")
    /\ gqrx_rx = <<>>
    /\ fsync = [running |-> FALSE, thread |-> 0, last_frequency |-> 0, last_mode |-> <<>>,
                connected |-> FALSE, joining |-> FALSE, started |-> None]
    /\ loops = [t \in 1..MaxStarts |-> "none"]
    /\ gqrx_cmds = <<>>
    /\ last_freq = Some(rigFreq)
    /\ freq_lock = None
    /\ running = TRUE
    /\ main = "serving"
    /\ server = "listening"
    /\ sync = AtHead
    /\ hpc = [c \in Conns |-> "idle"]
    /\ script = [c \in Conns |-> <<>>]
    /\ nread = [c \in Conns |-> 0]
    /\ call = [c \in Conns |-> NoCall]
    /\ sent = [c \in Conns |-> <<>>]
    /\ raced = {}
    /\ rt = [c \in Conns |-> None]
    /\ env = 0
    /\ ticks = 0

NextOutage ==
    \/ ReconSleep
    \/ ReconReconnect
    \/ ReconPoll
    \/ ReconRigRead
    \/ ReconSettle
    \/ ReconPushRig
    \/ ReconRigWrite
    \/ GqrxToggle
    \/ RigTune

SpecOutage == InitOutage /\ [][NextOutage]_vars

\* The clients connected, the first about to send commands the handler
\* answers by itself (PTT, \dump_state, q) with an f among them, the others
\* \dump_state and f; no GQRX; the rig up or down; the rig may be retuned, a
\* client may reset its connection, and the bridge may be shut down.
InitLocal ==
    /\ rigFreq \in InitFreqs
    /\ rigMode = LSB
    /\ rigUp \in BOOLEAN
    /\ gqrxFreq = 7000000
    /\ gqrxUp = FALSE
    /\ gqrx_sock = None
    /\ gqrx_rx = <<>>
    /\ fsync = [running |-> FALSE, thread |-> 0, last_frequency |-> 0, last_mode |-> <<>>,
                connected |-> FALSE, joining |-> FALSE, started |-> None]
    /\ loops = [t \in 1..MaxStarts |-> "none"]
    /\ gqrx_cmds = <<>>
    /\ last_freq = None
    /\ freq_lock = None
    /\ running = TRUE
    /\ main = "serving"
    /\ server = "listening"
    /\ sync = AtHead
    /\ hpc = [c \in Conns |-> "recv"]
    /\ \E s \in LocalScripts :
        script = [c \in Conns |-> IF c = 1 THEN s ELSE ScriptBystander]
    /\ nread = [c \in Conns |-> 0]
    /\ call = [c \in Conns |-> NoCall]
    /\ sent = [c \in Conns |-> <<>>]
    /\ raced = {}
    /\ rt = [c \in Conns |-> None]
    /\ env = 0
    /\ ticks = MaxTicks

NextLocal ==
    \/ \E c \in Conns : Recv(c) \/ RecvEof(c) \/ ConnFault(c) \/ GetVfoEnd(c)
    \/ ServerExit
    \/ RigTune
    \/ Shutdown

SpecLocal == InitLocal /\ [][NextLocal]_vars

\* The bridge from its launch to its shutdown, without clients: run(), the
\* accept loop and the reconciler, with GQRX there and its dial turned.  The
\* threads that can take a step do take it in the end; nothing says when,
\* or whether, the operator presses Ctrl+C.
InitLaunch == Init /\ gqrxUp /\ gqrxFreq = 7000000 /\ rigFreq = 7000000

NextLaunch ==
    \/ RunStart
    \/ ServerBind
    \/ ServerExit
    \/ ReconExit
    \/ ReconSleep
    \/ ReconReconnect
    \/ ReconPoll
    \/ ReconRigRead
    \/ ReconSettle
    \/ ReconPushRig
    \/ ReconRigWrite
    \/ GqrxTune
    \/ Shutdown

SpecLaunch ==
    /\ InitLaunch
    /\ [][NextLaunch]_vars
    /\ WF_vars(RunStart)
    /\ WF_vars(ServerBind)
    /\ WF_vars(ServerExit)
    /\ WF_vars(Reconciler)

\* The reconciler alone, from any state a tick can start in: GQRX connected,
\* rig and GQRX at equal, adjacent or distant frequencies, the cursor unset,
\* at any of them or half way between them; either endpoint may go away and come back.
TickFreqs == {0, 7000000, 7000001, 7010000, 7020000}

InitTick ==
    /\ rigFreq \in TickFreqs
    /\ rigMode = LSB
    /\ rigUp \in BOOLEAN
    /\ gqrxFreq \in TickFreqs
    /\ gqrxUp = TRUE
    /\ gqrx_sock = Some("open")
    /\ gqrx_rx = <<>>
    /\ fsync = [running |-> FALSE, thread |-> 0, last_frequency |-> 0, last_mode |-> <<>>,
                connected |-> FALSE, joining |-> FALSE, started |-> None]
    /\ loops = [t \in 1..MaxStarts |-> "none"]
    /\ gqrx_cmds = <<>>
    /\ last_freq \in {None} \cup {Some(f) : f \in TickFreqs}
    /\ freq_lock = None
    /\ running = TRUE
    /\ main = "serving"
    /\ server = "listening"
    /\ sync = AtHead
    /\ hpc = [c \in Conns |-> "idle"]
    /\ script = [c \in Conns |-> <<>>]
    /\ nread = [c \in Conns |-> 0]
    /\ call = [c \in Conns |-> NoCall]
    /\ sent = [c \in Conns |-> <<>>]
    /\ raced = {}
    /\ rt = [c \in Conns |-> None]
    /\ env = 0
    /\ ticks = 0

NextTick ==
    \/ ReconSleep
    \/ ReconReconnect
    \/ ReconPoll
    \/ ReconRigRead
    \/ ReconSettle
    \/ ReconPushRig
    \/ ReconRigWrite
    \/ GqrxToggle
    \/ RigToggle

SpecTick == InitTick /\ [][NextTick]_vars

\* The reconciler polling a GQRX whose response lines may reach the bridge
\* in pieces, with GQRX's dial turned now and then; both endpoints stay up.
InitFrame ==
    /\ rigFreq \in {7000000, 7010000}
    /\ rigMode = LSB
    /\ rigUp = TRUE
    /\ gqrxFreq \in {7000000, 7010000}
    /\ gqrxUp = TRUE
    /\ gqrx_sock = Some("open")
    /\ gqrx_rx = <<>>
    /\ fsync = [running |-> FALSE, thread |-> 0, last_frequency |-> 0, last_mode |-> <<>>,
                connected |-> FALSE, joining |-> FALSE, started |-> None]
    /\ loops = [t \in 1..MaxStarts |-> "none"]
    /\ gqrx_cmds = <<>>
    /\ last_freq \in {None, Some(7000000)}
    /\ freq_lock = None
    /\ running = TRUE
    /\ main = "serving"
    /\ server = "listening"
    /\ sync = AtHead
    /\ hpc = [c \in Conns |-> "idle"]
    /\ script = [c \in Conns |-> <<>>]
    /\ nread = [c \in Conns |-> 0]
    /\ call = [c \in Conns |-> NoCall]
    /\ sent = [c \in Conns |-> <<>>]
    /\ raced = {}
    /\ rt = [c \in Conns |-> None]
    /\ env = 0
    /\ ticks = 0

NextFrame ==
    \/ ReconPoll
    \/ ReconPollFragment
    \/ ReconRigRead
    \/ ReconSettle
    \/ ReconPushRig
    \/ ReconRigWrite
    \/ GqrxTune

SpecFrame == InitFrame /\ [][NextFrame]_vars

\* Connected clients that send the query verbs f and m, bare and followed
\* by an argument; the rig up or down, its dial turned now and then.
InitQuery ==
    /\ rigFreq = 7000000
    /\ rigMode = LSB
    /\ rigUp \in BOOLEAN
    /\ gqrxFreq = 7000000
    /\ gqrxUp = FALSE
    /\ gqrx_sock = None
    /\ gqrx_rx = <<>>
    /\ fsync = [running |-> FALSE, thread |-> 0, last_frequency |-> 0, last_mode |-> <<>>,
                connected |-> FALSE, joining |-> FALSE, started |-> None]
    /\ loops = [t \in 1..MaxStarts |-> "none"]
    /\ gqrx_cmds = <<>>
    /\ last_freq = None
    /\ freq_lock = None
    /\ running = TRUE
    /\ main = "serving"
    /\ server = "listening"
    /\ sync = AtHead
    /\ hpc = [c \in Conns |-> "recv"]
    /\ script \in [Conns -> {<<SegGetF, SegGetM>>,
                             <<Concat(<<SegGetF, SegF14000000>>)>>,
                             <<Concat(<<SegGetM, SegSetPKT>>)>>,
                             << <<"f", " ", "1", "4", "0", "0", "\n">> >>,
                             << <<"m", " ", "U", "S", "B", "\n">> >>}]
    /\ nread = [c \in Conns |-> 0]
    /\ call = [c \in Conns |-> NoCall]
    /\ sent = [c \in Conns |-> <<>>]
    /\ raced = {}
    /\ rt = [c \in Conns |-> None]
    /\ env = 0
    /\ ticks = MaxTicks

NextQuery ==
    \/ \E c \in Conns :
          \/ Recv(c)
          \/ RecvEof(c)
          \/ GetVfoEnd(c)
          \/ GetModeEnd(c)
          \/ SetFreqEnd(c)
          \/ SetFreqLock(c)
          \/ SetModeEnd(c)
    \/ RigTune

SpecQuery == InitQuery /\ [][NextQuery]_vars

\* FlRigBridge serving connected clients that send set and get commands,
\* the rig going away and coming back, its dial turned now and then.
InitHandleClient ==
    /\ rigFreq = 7000000
    /\ rigMode = LSB
    /\ rigUp = TRUE
    /\ gqrxFreq = 7000000
    /\ gqrxUp = FALSE
    /\ gqrx_sock = None
    /\ gqrx_rx = <<>>
    /\ fsync = [running |-> FALSE, thread |-> 0, last_frequency |-> 0, last_mode |-> <<>>,
                connected |-> FALSE, joining |-> FALSE, started |-> None]
    /\ loops = [t \in 1..MaxStarts |-> "none"]
    /\ gqrx_cmds = <<>>
    /\ last_freq = None
    /\ freq_lock = None
    /\ running = TRUE
    /\ main = "serving"
    /\ server = "listening"
    /\ sync = AtHead
    /\ hpc = [c \in Conns |-> "recv"]
    /\ script \in [Conns -> {<<SegF14000000, SegGetF>>, <<SegSetPKT, SegGetM>>,
                             <<SegSetT1, SegGetT>>, <<SegFabc, SegBogus>>,
                             <<SegDump, SegQuit>>}]
    /\ nread = [c \in Conns |-> 0]
    /\ call = [c \in Conns |-> NoCall]
    /\ sent = [c \in Conns |-> <<>>]
    /\ raced = {}
    /\ rt = [c \in Conns |-> None]
    /\ env = 0
    /\ ticks = MaxTicks

SpecHandleClient ==
    InitHandleClient /\ [][\/ \E c \in Conns : handle_client(c) \/ RecvEof(c)
                           \/ RigTune
                           \/ RigToggle]_vars

\* The operator has just clicked in GQRX, 10,000 Hz away from the rig and
\* the cursor, while one client is about to send F 14000000 and the others
\* F 7000000: the reconciler and the handlers meet at freq_lock.
SpecContend ==
    /\ rigFreq \in SyncedFreqs
    /\ rigMode = LSB
    /\ rigUp = TRUE
    /\ gqrxFreq \in SyncedFreqs
    /\ gqrxUp = TRUE
    /\ gqrx_sock = Some("open")
    /\ gqrx_rx = <<>>
    /\ fsync = [running |-> FALSE, thread |-> 0, last_frequency |-> 0, last_mode |-> <<>>,
                connected |-> FALSE, joining |-> FALSE, started |-> None]
    /\ loops = [t \in 1..MaxStarts |-> "none"]
    /\ gqrx_cmds = <<>>
    /\ last_freq = Some(rigFreq)
    /\ freq_lock = None
    /\ running = TRUE
    /\ main = "serving"
    /\ server = "listening"
    /\ sync = AtHead
    /\ hpc = [c \in Conns |-> "recv"]
    /\ script = [c \in Conns |-> IF c = 1 THEN ScriptF14000000 ELSE ScriptF7000000]
    /\ nread = [c \in Conns |-> 0]
    /\ call = [c \in Conns |-> NoCall]
    /\ sent = [c \in Conns |-> <<>>]
    /\ raced = {}
    /\ rt = [c \in Conns |-> None]
    /\ env = 0
    /\ ticks = 0
    /\ [][\/ \E c \in Conns : Recv(c) \/ SetFreqEnd(c) \/ SetFreqLock(c) \/ RecvEof(c)
          \/ ReconPoll
          \/ ReconRigRead
          \/ ReconSettle
          \/ ReconPushRig
          \/ ReconRigWrite]_vars

\* FrequencySync after connect(): start() and stop() called in any order,
\* the loop threads they create, the rig going away and its dial turned.
SpecFrequencySync ==
    /\ rigFreq \in SyncedFreqs
    /\ rigMode \in {LSB, USB}
    /\ rigUp = TRUE
    /\ gqrxFreq = 7000000
    /\ gqrxUp = TRUE
    /\ gqrx_sock = None
    /\ gqrx_rx = <<>>
    /\ fsync = [running |-> FALSE, thread |-> 0, last_frequency |-> 0, last_mode |-> <<>>,
                connected |-> TRUE, joining |-> FALSE, started |-> None]
    /\ loops = [t \in 1..MaxStarts |-> "none"]
    /\ gqrx_cmds = <<>>
    /\ last_freq = None
    /\ freq_lock = None
    /\ running = TRUE
    /\ main = "start"
    /\ server = "off"
    /\ sync = [pc |-> "off", gqrx_freq |-> None, flrig_freq |-> None]
    /\ hpc = [c \in Conns |-> "idle"]
    /\ script = [c \in Conns |-> <<>>]
    /\ nread = [c \in Conns |-> 0]
    /\ call = [c \in Conns |-> NoCall]
    /\ sent = [c \in Conns |-> <<>>]
    /\ raced = {}
    /\ rt = [c \in Conns |-> None]
    /\ env = 0
    /\ ticks = 0
    /\ [][\/ start
          \/ stop
          \/ \E t \in 1..MaxStarts : sync_loop(t)
          \/ RigTune
          \/ RigToggle]_vars

\* GQRXFlRigBridge after its run() has probed FlRig and connected to GQRX:
\* the sync loop, with both endpoints coming and going and both dials turned.
InitBridge ==
    /\ rigFreq \in InitFreqs
    /\ rigMode = LSB
    /\ rigUp = TRUE
    /\ gqrxFreq \in InitFreqs
    /\ gqrxUp = TRUE
    /\ gqrx_sock = Some("open")
    /\ gqrx_rx = <<>>
    /\ fsync = [running |-> FALSE, thread |-> 0, last_frequency |-> 0, last_mode |-> <<>>,
                connected |-> FALSE, joining |-> FALSE, started |-> None]
    /\ loops = [t \in 1..MaxStarts |-> "none"]
    /\ gqrx_cmds = <<>>
    /\ last_freq = None
    /\ freq_lock = None
    /\ running = TRUE
    /\ main = "serving"
    /\ server = "off"
    /\ sync = [pc |-> "off", gqrx_freq |-> None, flrig_freq |-> None]
    /\ hpc = [c \in Conns |-> "idle"]
    /\ script = [c \in Conns |-> <<>>]
    /\ nread = [c \in Conns |-> 0]
    /\ call = [c \in Conns |-> NoCall]
    /\ sent = [c \in Conns |-> <<>>]
    /\ raced = {}
    /\ rt = [c \in Conns |-> None]
    /\ env = 0
    /\ ticks = 0

NextBridge ==
    \/ BridgeSyncPass
    \/ RigTune
    \/ GqrxTune
    \/ RigToggle
    \/ GqrxToggle

SpecBridge == InitBridge /\ [][NextBridge]_vars

\* ------------------------------------------------------------- the claims
\* The bytes the recv() of this step returned to connection c's handler.
Received(c) == Concat(SubSeq(script[c], nread[c] + 1, nread'[c]))

\* Connection c's handler waits in recv() with every segment read, or is done.
Idle(c) == nread[c] = Len(script[c]) /\ hpc[c] \in {"recv", "closed"}

IsNumberLine(r) ==
    /\ Len(r) >= 2
    /\ r[Len(r)] = "\n"
    /\ AllDigits(SubSeq(r, 1, Len(r) - 1))

IsFreqReply(r) == r = RPRT_ERR \/ IsNumberLine(r)

IsModeReply(r) == \E m \in KnownModes : r = m \o PASSBAND

\* C1 (as claimed): the command F 14000000 that reaches the server as the
\* two reads "F 1400" and "0000\n" is dispatched once, as F 14000000: the
\* rig is never asked for another frequency, and the client gets exactly
\* one reply, the one to F.
C1_SplitReadIsOneCommand ==
    \A c \in Conns :
        script[c] = ScriptSplit =>
            /\ call[c].op = "set_frequency" => call[c].arg = Some(14000000)
            /\ Len(sent[c]) <= 1
            /\ Idle(c) => Len(sent[c]) = 1 /\ sent[c][1] \in {RPRT_OK, RPRT_ERR}

\* C2 (as claimed): the commands f and m, however the reads deliver them
\* (one read may hold both), are dispatched one by one: once both are
\* handled the client has exactly two replies, the one to f and then the
\* one to m, and f was never given m as its argument.
C2_OneReplyPerCommand ==
    \A c \in Conns :
        script[c] = ScriptTwo /\ Idle(c) =>
            /\ Len(sent[c]) = 2
            /\ IsFreqReply(sent[c][1])
            /\ IsModeReply(sent[c][2])

\* The verbs handle_rigctld_client knows.
Verbs ==
    {<<"f">>, <<"F">>, <<"m">>, <<"M">>, <<"q">>, <<"Q">>, <<"t">>, <<"T">>,
     CmdDumpState}

\* A malformed command: an unknown verb, or f/F with an argument that is no
\* integer.
Malformed(data) ==
    LET parts == Split(Strip(data))
    IN  /\ parts # <<>>
        /\ \/ parts[1] \notin Verbs
           \/ parts[1] \in {<<"f">>, <<"F">>} /\ Len(parts) > 1 /\ ~IsInt(parts[2])

\* C8: a read that holds a malformed command is answered with exactly
\* "RPRT -1\n", starts no call to the rig and leaves the rig as it is, and
\* the handler goes back to recv() on the open connection.
C8_MalformedAnswered ==
    [][\A c \in Conns :
        nread'[c] > nread[c] /\ Malformed(Received(c)) =>
            /\ sent'[c] = Append(sent[c], RPRT_ERR)
            /\ call'[c] = NoCall
            /\ rigFreq' = rigFreq /\ rigMode' = rigMode
            /\ hpc'[c] = IF running THEN "recv" ELSE "closed"]_vars

\* C8's case: "bogus" was answered RPRT -1 and the f after it, on the same
\* connection, got its number.
C8_Witness ==
    \E c \in Conns :
        /\ script[c] = ScriptBogus
        /\ Len(sent[c]) = 2
        /\ sent[c][1] = RPRT_ERR
        /\ IsNumberLine(sent[c][2])

\* The frequencies of the round trip.
RoundTripRange == 1000000..30000000

\* C9: when f returns on a connection whose last successful F set the rig
\* to x in 1,000,000..30,000,000 and nothing has written the rig since, the
\* reply is "<x>\n"; it is "RPRT -1\n" only if the call to the rig raised
\* (the rig was down, or the call shared the proxy with another call).
C9_RoundTrip ==
    [][\A c \in Conns :
        /\ hpc[c] = "rpc" /\ call[c].op = "get_vfo" /\ hpc'[c] # "rpc"
        /\ rt[c] # None /\ rt[c][1] \in RoundTripRange
        => \/ sent'[c] = Append(sent[c], IntToStr(rt[c][1]) \o <<"\n">>)
           \/ /\ ~rigUp \/ c \in raced
              /\ sent'[c] = Append(sent[c], RPRT_ERR)]_vars

\* C9's case: F 30000000 answered RPRT 0, then f answered 30000000.
C9_Witness ==
    \E c \in Conns :
        /\ script[c] = ScriptRoundHi
        /\ sent[c] = <<RPRT_OK,
                       <<"3", "0", "0", "0", "0", "0", "0", "0", "\n">>>>

\* C10 (as claimed): when get_flrig_frequency() returns the rig's frequency
\* (the rig is up and the call was alone on the proxy), f is answered with
\* that frequency as "<int>\n", whatever non-negative value it is.
C10_GetFreqReply ==
    [][\A c \in Conns :
        /\ hpc[c] = "rpc" /\ call[c].op = "get_vfo" /\ hpc'[c] # "rpc"
        /\ rigUp /\ c \notin raced
        => sent'[c] = Append(sent[c], IntToStr(rigFreq) \o <<"\n">>)]_vars

\* C4 (as claimed): at no time are two calls to the rig in flight at once.
C4_CallsSerialized == Cardinality(InFlight) <= 1

\* C5 (as claimed): with the rig up, once the F 7000000 of one connection
\* and the F 14000000 of the other have both been answered, the rig holds
\* 7000000 or 14000000.
C5_OneOfTheTwo ==
    (\A c \in Conns : Idle(c) /\ Len(sent[c]) = 1) =>
        rigFreq \in {7000000, 14000000}

\* The frequency of the one F of connection c's script.
AskedFreq(c) == PyInt(Split(Strip(script[c][1]))[2])

\* C3 (as claimed): once the client's F x is answered RPRT 0, with rig and
\* GQRX in step at y before it, the rig keeps x: the reconciler does not
\* write y back.
C3_ClientChangeKept ==
    \A c \in Conns :
        script[c] # <<>> /\ sent[c] # <<>> /\ sent[c][1] = RPRT_OK =>
            rigFreq = AskedFreq(c)

\* C6 (as claimed): with the rig 10,000 Hz off the cursor, GQRX at the
\* cursor and both reachable, after two ticks GQRX and the cursor are at
\* the rig's frequency.
C6_ConvergesInTwoTicks ==
    ticks >= 2 => gqrxFreq = rigFreq /\ last_freq = Some(rigFreq)

\* The reconciler waits for the lock it holds itself.
ReconStuck == sync.pc = "relock" /\ freq_lock = Some(Recon)

\* C7 (as claimed): the reconciler lives through the outage and after it:
\* with GQRX back and the socket to it open again the loop is still
\* running, not blocked for good.
C7_LoopSurvivesOutage ==
    gqrxUp /\ gqrx_sock = Some("open") => ~ReconStuck

\* The reply a step has appended to connection c's replies.
LastSent(c) == sent'[c][Len(sent'[c])]

\* C11: when get_flrig_mode() returns for an m, exactly one reply is sent,
\* "<mode>\n0\n" with <mode> one of the eight known modes, and the mode is
\* USB when the rig reports a mode outside the eight or the call failed;
\* the reply is never RPRT -1.
C11_GetModeReply ==
    [][\A c \in Conns :
        hpc[c] = "rpc" /\ call[c].op = "get_mode" /\ hpc'[c] # "rpc" =>
            /\ Len(sent'[c]) = Len(sent[c]) + 1
            /\ SubSeq(sent'[c], 1, Len(sent[c])) = sent[c]
            /\ IsModeReply(LastSent(c))
            /\ LastSent(c) # RPRT_ERR
            /\ rigMode \in KnownModes /\ rigUp /\ c \notin raced =>
                   LastSent(c) = rigMode \o PASSBAND
            /\ rigMode \notin KnownModes \/ ~rigUp =>
                   LastSent(c) = USB \o PASSBAND]_vars

\* C11's case: the rig was put in PKT-U, a mode outside the eight, and the m
\* after it was answered USB.
C11_Witness ==
    \E c \in Conns :
        /\ script[c] = ScriptMode
        /\ rigMode = PKTUSB
        /\ sent[c] = <<RPRT_OK, USB \o PASSBAND>>

\* The command words of the bytes the recv() of this step returned.
Parts(c) == Split(Strip(Received(c)))

\* What a command that is answered by the handler alone leaves as it is.
LocalFrame(c) ==
    /\ call' = call
    /\ raced' = raced
    /\ hpc'[c] # "rpc"
    /\ UNCHANGED <<fsync, loops, gqrx_cmds, rigVars, gqrxVars, gqrx_sock, gqrx_rx, last_freq, freq_lock, running,
                   main, server, sync>>
    /\ \A d \in Conns \ {c} : hpc'[d] = hpc[d] /\ sent'[d] = sent[d]

\* One reply r was sent to connection c in this step.
Replied(c, r) == sent'[c] = Append(sent[c], r)

\* C12: t is answered "0\n" and T 0 / T 1 are answered "RPRT 0\n", with the
\* rig up or down and the bridge running or shutting down; the step starts
\* no call to the rig and changes nothing of the bridge but the reply sent.
C12_PttStub ==
    [][\A c \in Conns :
        nread'[c] > nread[c] =>
            /\ Parts(c) = << <<"t">> >> => Replied(c, <<"0", "\n">>) /\ LocalFrame(c)
            /\ Parts(c) \in {<< <<"T">>, <<"0">> >>, << <<"T">>, <<"1">> >>} =>
                   Replied(c, <<"R", "P", "R", "T", " ", "0", "\n">>) /\ LocalFrame(c)]_vars

\* C12's case: t answered "0\n" and T 1 answered "RPRT 0\n" while the rig
\* was down.
C12_Witness ==
    \E c \in Conns :
        /\ script[c] = ScriptPtt
        /\ ~rigUp
        /\ sent[c] = <<PTT_RX, RPRT_OK>>

\* A capability reply: it opens with protocol version 0, rig model 2, ITU
\* region 2.
IsCapabilityReply(r) ==
    Len(r) > 6 /\ SubSeq(r, 1, 6) = <<"0", "\n", "2", "\n", "2", "\n">>

\* C13: \dump_state is answered with a capability reply that is the same,
\* byte for byte, as every capability reply sent before on any connection,
\* whatever the rig's state and whatever was processed before; the step
\* starts no call to the rig.
C13_DumpStateFixed ==
    [][\A c \in Conns :
        nread'[c] > nread[c] /\ Parts(c) # <<>> /\ Parts(c)[1] = CmdDumpState =>
            /\ Len(sent'[c]) = Len(sent[c]) + 1
            /\ IsCapabilityReply(LastSent(c))
            /\ \A d \in Conns : \A i \in DOMAIN sent[d] :
                   IsCapabilityReply(sent[d][i]) => sent[d][i] = LastSent(c)
            /\ LocalFrame(c)]_vars

\* C13's case: \dump_state answered twice on one connection, with an f
\* answered in between, and the rig retuned meanwhile.
C13_Witness ==
    \E c \in Conns :
        /\ script[c] = ScriptDump
        /\ Len(sent[c]) = 3
        /\ IsCapabilityReply(sent[c][1])
        /\ IsNumberLine(sent[c][2])
        /\ IsCapabilityReply(sent[c][3])
        /\ env > 0

\* C14: q or Q is answered "RPRT 0\n" once and the connection is closed in
\* the same pass, every other connection staying as it is; a closed
\* connection gets no further reply and none of its later bytes is read.
C14_QuitCloses ==
    [][\A c \in Conns :
        /\ nread'[c] > nread[c] /\ Parts(c) # <<>> /\ Parts(c)[1] \in {<<"q">>, <<"Q">>} =>
               /\ Replied(c, RPRT_OK)
               /\ hpc'[c] = "closed"
               /\ \A d \in Conns \ {c} : hpc'[d] = hpc[d] /\ sent'[d] = sent[d]
        /\ hpc[c] = "closed" =>
               hpc'[c] = "closed" /\ sent'[c] = sent[c] /\ nread'[c] = nread[c]]_vars

\* C14's case: q was answered and its connection closed with the f after it
\* unread, while the other connection is open and has been answered since.
C14_Witness ==
    \E c, d \in Conns :
        /\ script[c] = ScriptQuit
        /\ hpc[c] = "closed" /\ sent[c] = <<RPRT_OK>> /\ nread[c] = 1
        /\ d # c /\ hpc[d] = "recv" /\ sent[d] # <<>>
        /\ running

\* C16: a step that closes one connection (its handler caught a fault, or
\* left its loop) leaves every other connection's handler, calls and
\* replies as they are, and the stop flag, the accept loop, the reconciler
\* and run() as well.
C16_FaultIsolated ==
    [][\A c \in Conns :
        hpc[c] # "closed" /\ hpc'[c] = "closed" =>
            /\ \A d \in Conns \ {c} :
                   hpc'[d] = hpc[d] /\ sent'[d] = sent[d] /\ call'[d] = call[d]
            /\ UNCHANGED <<running, main, server, sync, freq_lock, last_freq>>]_vars

\* C16's case: the first connection was closed by a fault before any of its
\* commands was read, and another connection has had both its commands
\* answered and is still open, the accept loop still listening.
C16_Witness ==
    \E d \in Conns \ {1} :
        /\ hpc[1] = "closed" /\ nread[1] = 0 /\ sent[1] = <<>>
        /\ hpc[d] = "recv" /\ Len(sent[d]) = 2
        /\ running /\ server = "listening"

\* C15: when the call to the rig of an F <hz> or an M <mode> ends with the
\* rig's endpoint down, the reply is "RPRT -1\n", the handler goes back to
\* recv() on the open connection, last_freq and the rig are unchanged and
\* the bridge keeps running.
C15_RigDownAnswered ==
    [][\A c \in Conns :
        /\ hpc[c] = "rpc" /\ call[c].op \in {"set_frequency", "set_mode"}
        /\ hpc'[c] # "rpc" /\ ~rigUp
        => /\ Replied(c, RPRT_ERR)
           /\ hpc'[c] = IF running THEN "recv" ELSE "closed"
           /\ UNCHANGED <<last_freq, rigFreq, rigMode, running, main, server, sync>>]_vars

\* C15's case: F 1000000 was answered RPRT -1 with the rig down and the
\* cursor still unset, and once the rig was back the f on the same
\* connection got its number.
C15_Witness ==
    \E c \in Conns :
        /\ script[c] = ScriptRoundLo
        /\ Len(sent[c]) = 2
        /\ sent[c][1] = RPRT_ERR
        /\ IsNumberLine(sent[c][2])
        /\ last_freq = None
        /\ running

\* C17 (as claimed): once a call on the socket to GQRX has raised, the
\* client is marked disconnected: it holds no socket, so that no later get
\* or set reaches the network through the socket that failed.
C17_FaultMarksDisconnected == gqrx_sock # Some("faulted")

\* C18: when run() probes FlRig and the endpoint is down, run() returns;
\* from then on the reconciler thread is never started, the rigctld thread
\* is never started, so no listener is bound and no client is accepted.
C18_StartupAborts ==
    [][/\ main = "start" /\ main' # "start" /\ ~rigUp => main' = "aborted"
       /\ main' = "aborted" =>
              /\ server' = "off"
              /\ sync'.pc = "off"
              /\ \A c \in Conns : hpc'[c] = "idle"]_vars

\* C18's case: run() has returned after the failed probe, FlRig has come
\* back since, and still nothing was started.
C18_Witness ==
    /\ main = "aborted"
    /\ rigUp
    /\ server = "off"
    /\ sync.pc = "off"

\* C19 (as claimed): once bind() has failed in the rigctld thread, the
\* bridge goes down as a whole: the stop flag falls, by the bridge's own
\* doing.
C19_BindFailureAborts == (server = "dead") ~> ~running

\* C20 (as claimed): once the stop flag is down, the reconciler loop leaves
\* its while and the accept loop leaves its while (or never got to it).
C20_StopObserved ==
    ~running ~> (sync.pc = "exit" /\ server \in {"exit", "dead"})

\* The reconciler's tick ends in this step: it has decided and is back at
\* its loop head.
TickEnds == sync.pc = "decide" /\ sync'.pc = "head"

\* C21 (as claimed): a tick in which the read of GQRX or the read of the rig
\* failed ends with last_freq as it was and with no frequency written to
\* the rig or to GQRX.
C21_FailedReadSkipsTick ==
    [][TickEnds /\ (sync.gqrx_freq = None \/ sync.flrig_freq = None) =>
           /\ last_freq' = last_freq
           /\ rigFreq' = rigFreq
           /\ gqrxFreq' = gqrxFreq]_vars

\* C22 (as claimed): a tick that pushes the rig's frequency to GQRX ends
\* with last_freq at the pushed value when GQRX took it, and with last_freq
\* as it was when the push failed, the first tick (last_freq unset)
\* included.
C22_CursorFollowsPush ==
    [][/\ TickEnds
       /\ Decide(sync.gqrx_freq, sync.flrig_freq, last_freq) \in {"first", "to_gqrx"}
       => last_freq' = IF GqrxAnswers THEN sync.flrig_freq ELSE last_freq]_vars

\* C23 (as claimed): a tick that found GQRX further from last_freq than the
\* rig, and so writes GQRX's frequency v to the rig, completes: the
\* reconciler is back at its loop head with last_freq = v.
C23_LargerDeltaWins ==
    \A v \in TuneFreqs :
        (sync.pc = "rigwrite" /\ sync.gqrx_freq = Some(v))
            ~> (sync.pc = "head" /\ last_freq = Some(v))

\* C24 (as claimed): a tick with last_freq unset in which both reads
\* succeeded and the two frequencies differ by more than 1 Hz pushes the
\* rig's frequency to GQRX (GQRX still answering), leaves the rig alone and
\* ends with last_freq at the rig's frequency.
C24_FirstTickRigWins ==
    [][/\ sync.pc = "decide" /\ sync'.pc # "decide"
       /\ last_freq = None
       /\ sync.gqrx_freq # None /\ sync.flrig_freq # None
       /\ Abs(sync.gqrx_freq[1] - sync.flrig_freq[1]) > 1
       /\ GqrxAnswers
       => /\ TickEnds
          /\ gqrxFreq' = sync.flrig_freq[1]
          /\ rigFreq' = rigFreq
          /\ last_freq' = sync.flrig_freq]_vars

\* C25: a tick in which both reads succeeded and the two frequencies are
\* at most 1 Hz apart ends at once, writes neither the rig nor GQRX, and
\* leaves last_freq at one of the two frequencies read.
C25_InStepNoWrite ==
    [][/\ sync.pc = "decide" /\ sync'.pc # "decide"
       /\ sync.gqrx_freq # None /\ sync.flrig_freq # None
       /\ Abs(sync.gqrx_freq[1] - sync.flrig_freq[1]) <= 1
       => /\ TickEnds
          /\ rigFreq' = rigFreq
          /\ gqrxFreq' = gqrxFreq
          /\ last_freq' \in {sync.gqrx_freq, sync.flrig_freq}]_vars

\* C25's case: with the rig at 7000000 and GQRX 1 Hz above, ticks have
\* passed, both are where they were and last_freq is at GQRX's frequency.
C25_Witness ==
    /\ ticks >= 1
    /\ sync.pc = "head"
    /\ rigFreq = 7000000
    /\ gqrxFreq = 7000001
    /\ last_freq = Some(7000001)
    /\ env = 0

\* C26 (as claimed): no step of a connection handler changes last_freq.
C26_CursorOnlyReconciler ==
    [][(\E c \in Conns : hpc'[c] # hpc[c]) => last_freq' = last_freq]_vars

\* C27: the reconciler leaves its loop only with the stop flag down; a call
\* to an endpoint that raises inside a tick does not end the loop: a failed
\* read of GQRX or of the rig leaves the tick to go on to its decision, and
\* a failed write of the rig ends the tick with freq_lock released, the
\* reconciler back at its loop head.
C27_LoopSurvivesFaults ==
    [][/\ sync'.pc = "exit" => ~running
       /\ sync.pc = "head" /\ sync'.pc # "head" /\ gqrx_sock # None /\ ~GqrxAnswers =>
              sync'.pc = "rigread" /\ sync'.gqrx_freq = None
       /\ sync.pc = "rigread" /\ sync'.pc # "rigread" /\ ~rigUp =>
              sync'.pc = "decide" /\ sync'.flrig_freq = None
       /\ sync.pc = "rigwrite" /\ sync'.pc # "rigwrite" /\ ~rigUp =>
              sync' = AtHead /\ freq_lock' = None]_vars

\* C27's case: both endpoints are down, ticks have failed, and the
\* reconciler is still in its loop, about to try a reconnect.
C27_Witness ==
    /\ running
    /\ ~rigUp
    /\ ~gqrxUp
    /\ ticks >= 2
    /\ sync.pc = "reconnect"

\* C28: a reconciler step taken while the GQRX client is disconnected
\* (gqrx_sock is None) reads and writes neither endpoint and leaves
\* last_freq alone: it is a step of the reconnect path only, the wait at the
\* loop head or the connection attempt that returns to the loop head.
C28_DisconnectedOnlyReconnects ==
    [][gqrx_sock = None /\ sync' # sync =>
          /\ sync.pc \in {"head", "reconnect"}
          /\ sync'.pc \in {"head", "reconnect", "exit"}
          /\ last_freq' = last_freq
          /\ rigFreq' = rigFreq
          /\ gqrxFreq' = gqrxFreq]_vars

\* C29: once the stop flag is down the reconciler opens no connection to
\* GQRX: no step taken with running false turns a gqrx_sock that is not an
\* open socket into one.
C29_NoConnectAfterStop ==
    [][~running /\ gqrx_sock' # gqrx_sock => gqrx_sock' = None]_vars

\* C30: get_gqrx_frequency() on a connection GQRX answers returns the
\* integer on GQRX's response line, GQRX's frequency, however the line
\* reaches the bridge: never a number read from a piece of the line.
C30_WholeLineRead ==
    [][sync.pc = "head" /\ sync'.pc = "rigread" /\ GqrxAnswers =>
          sync'.gqrx_freq = Some(gqrxFreq)]_vars

\* C32: a pass of the handler over data whose first word is the lowercase
\* verb f or m starts no set_frequency and no set_mode call to the rig,
\* whatever follows the verb.
C32_QueryNeverSets ==
    [][\A c \in Conns :
        /\ nread'[c] > nread[c]
        /\ Parts(c) # <<>>
        /\ Parts(c)[1] \in {<<"f">>, <<"m">>}
        => ~(call'[c] # call[c] /\ call'[c].op \in {"set_frequency", "set_mode"})]_vars

\* C33: in FlRigBridge.handle_client, with the rig available, F <hz> with a
\* numeric argument sets the rig's frequency to hz and is answered
\* "RPRT 0\n", M <mode> sets the rig's mode, and T <0|1> is answered
\* "RPRT 0\n".
C33_SetBranchesReached ==
    [][\A c \in Conns :
        nread'[c] > nread[c] /\ rigUp /\ Len(Parts(c)) = 2 =>
            /\ Parts(c)[1] = <<"F">> /\ IsInt(Parts(c)[2]) =>
                  rigFreq' = PyInt(Parts(c)[2]) /\ Replied(c, <<"R", "P", "R", "T", " ", "0", "\n">>)
            /\ Parts(c)[1] = <<"M">> => rigMode' = Parts(c)[2]
            /\ Parts(c)[1] = <<"T">> =>
                  Replied(c, <<"R", "P", "R", "T", " ", "0", "\n">>)]_vars

\* C34: the reconciler dials GQRX only while it holds no connection, and a
\* command GQRX answers leaves the connection as it is, to be used again by
\* the next command.
C34_SingleReceiverConnection ==
    [][/\ sync.pc = "reconnect" /\ sync'.pc # "reconnect" => gqrx_sock = None
       /\ sync' # sync /\ sync.pc \in {"head", "decide"} /\ GqrxAnswers =>
              gqrx_sock' = gqrx_sock]_vars

\* C34's case: the connection was lost, GQRX is back, and the reconciler is
\* about to dial.
C34_Witness ==
    /\ sync.pc = "reconnect"
    /\ gqrxUp
    /\ env = 2
    /\ ticks >= 1

\* C35: last_freq is accessed under freq_lock only: a step that assigns
\* last_freq is the with self.freq_lock block of a thread that found the lock
\* free, so while one thread holds freq_lock no step of another thread
\* changes last_freq, and a handler that needs the lock then waits for it.
C35_CursorUnderLock ==
    [][/\ last_freq' # last_freq => freq_lock = None
       /\ \A c \in Conns :
             hpc[c] = "lock" /\ freq_lock # None => hpc'[c] = "lock"]_vars

\* C35's case: the reconciler holds freq_lock while a handler whose rig call
\* has returned is waiting to take it.
C35_Witness ==
    /\ freq_lock = Some(Recon)
    /\ \E c \in Conns : hpc[c] = "lock" /\ call[c].arg # last_freq

\* C36: no thread asks for freq_lock while it holds it: the reconciler is
\* never inside set_flrig_frequency, waiting at its with self.freq_lock,
\* while it is itself the holder of freq_lock; so no handler whose rig call
\* has returned is left waiting for a lock that is never released.
C36_NoLockDeadlock ==
    ~(/\ sync.pc = "relock"
      /\ freq_lock = Some(Recon))

\* C37: once two F commands of two connections, in flight at the same time,
\* have both been answered "RPRT 0\n" and nothing else has written the rig,
\* last_freq is the frequency the rig holds.
C37_CursorMatchesRig ==
    (\A c \in Conns : Idle(c) /\ sent[c] = <<RPRT_OK>>) => last_freq = Some(rigFreq)

C31_SuccessIffExactRprt0 ==
    \A i \in 1..Len(gqrx_cmds) :
        gqrx_cmds[i].verb = "F" =>
            (gqrx_cmds[i].ok <=> gqrx_cmds[i].response = Some(<<"R", "P", "R", "T", " ", "0">>))

\* C39: start() while running creates no thread, and a loop thread begins a
\* sync cycle only while no other loop thread is alive.
C39_OneSyncLoop ==
    [][/\ fsync.running /\ fsync' # fsync /\ ~fsync.joining /\ fsync'.running =>
              loops' = loops \/ \E t \in 1..MaxStarts : loops'[t] # loops[t] /\ loops[t] # "none"
       /\ \A t \in 1..MaxStarts :
              loops[t] = "head" /\ loops'[t] = "cycle" =>
                  \A u \in 1..MaxStarts \ {t} : loops[u] \in {"none", "done"}]_vars

\* A step that runs sync_once(): the initial sync of a start() that creates
\* a thread, or the cycle a loop thread begins.
SyncOnceRuns ==
    \/ fsync'.thread # fsync.thread
    \/ \E t \in 1..MaxStarts : loops[t] = "head" /\ loops'[t] = "cycle"

\* The latest sync_once() sent the command verb with arg and its setter
\* returned True.
Pushed(verb, arg) ==
    \E i \in 1..Len(gqrx_cmds') :
        gqrx_cmds'[i].verb = verb /\ gqrx_cmds'[i].arg = arg /\ gqrx_cmds'[i].ok

\* C40: sync_once() moves last_frequency (last_mode) only to a value whose
\* push to GQRX succeeded in that call; while the rig's frequency differs
\* from last_frequency and GQRX is connected, every sync_once() sends it
\* again; and when the rig cannot be read, sync_once() sends nothing and
\* leaves both cursors alone.
C40_CursorAfterPush ==
    [][SyncOnceRuns =>
          /\ fsync'.last_frequency # fsync.last_frequency =>
                Pushed("F", fsync'.last_frequency)
          /\ fsync'.last_mode # fsync.last_mode => Pushed("M", fsync'.last_mode)
          /\ rigUp /\ PyFloat(rigFreq) # fsync.last_frequency /\ fsync.connected =>
                /\ gqrx_cmds' # <<>>
                /\ gqrx_cmds'[1].verb = "F"
                /\ gqrx_cmds'[1].arg = PyFloat(rigFreq)
          /\ ~rigUp =>
                /\ gqrx_cmds' = <<>>
                /\ fsync'.last_frequency = fsync.last_frequency
                /\ fsync'.last_mode = fsync.last_mode]_vars

\* C40's case: the latest sync_once() pushed the rig's frequency, GQRX
\* rejected it, and last_frequency still differs from the rig.
C40_Witness ==
    /\ fsync.running
    /\ fsync.thread = 1
    /\ loops[1] = "cycle"
    /\ rigUp
    /\ gqrx_cmds # <<>>
    /\ gqrx_cmds[1].verb = "F"
    /\ gqrx_cmds[1].arg = rigFreq
    /\ ~gqrx_cmds[1].ok
    /\ fsync.last_frequency # rigFreq
    /\ fsync.last_frequency # 0
====
